---- MODULE Spec2Model ----
(***************************************************************************)
(* A model of the palette recoloring library: the 3-d convex hull facade   *)
(* (qhull-rs/src/convex_hull.rs), the palette extractor                    *)
(* (image-palette-recoloring/src/palette.rs) and the decomposition API     *)
(* (image-palette-recoloring/src/lib.rs).                                  *)
(*                                                                         *)
(* Colours are integer RGB triples.  Sequences are 1-based here where the  *)
(* Rust code is 0-based; "index" always means the position in the          *)
(* struct-of-arrays of the hull.                                           *)
(***************************************************************************)
EXTENDS Integers, Sequences, FiniteSets, TLC

\* ------------------------------------------------------------------ bounds

\* Longest palette handed to DecomposedImage::new.
MaxPaletteLen == 5

\* ---------------------------------------------------------------- colours

\* The colours palettes are drawn from.  The first five are in general
\* position (no four coplanar); the last lies inside the tetrahedron of the
\* first four and on the segment between the first and the fifth.
PaletteColors ==
  { <<0, 0, 0>>, <<4, 0, 0>>, <<0, 4, 0>>, <<0, 0, 4>>, <<4, 4, 4>>, <<1, 1, 1>> }

\* The colours image pixels are drawn from: one more extreme point.
Colors == PaletteColors \cup { <<4, 1, 2>> }

\* An explicit (tabulated) copy of the function f.
Tabulate(f) == f @@ << >>

Range(s) == { s[i] : i \in DOMAIN s }

\* ------------------------------------------------------------ 3-d vectors

Sub(a, b) == << a[1] - b[1], a[2] - b[2], a[3] - b[3] >>

Dot(a, b) == a[1] * b[1] + a[2] * b[2] + a[3] * b[3]

Cross(a, b) ==
  << a[2] * b[3] - a[3] * b[2],
     a[3] * b[1] - a[1] * b[3],
     a[1] * b[2] - a[2] * b[1] >>

\* Signed volume (times 6) of the tetrahedron a b c d.
Orient(a, b, c, d) == Dot(Sub(d, a), Cross(Sub(b, a), Sub(c, a)))

\* -------------------------------------------- the wrapped hull library
\* The N-dimensional hull library (Qhull behind qhull-rs/src/raw.rs) is not
\* part of the sources at hand; it is modelled from its documented contract:
\* the vertices are the distinct extreme points of the input, the facets
\* are the triangles of the boundary, each with an outward normal, and a
\* degenerate (flat) input is rejected.  What the library leaves open (the
\* order of the vertices, the order of a facet's vertices) is a parameter.

InSegment(p, a, b) ==
  /\ a # b
  /\ Cross(Sub(b, a), Sub(p, a)) = <<0, 0, 0>>
  /\ Dot(Sub(p, a), Sub(b, a)) >= 0
  /\ Dot(Sub(p, a), Sub(b, a)) <= Dot(Sub(b, a), Sub(b, a))

InTriangle(p, a, b, c) ==
  LET n == Cross(Sub(b, a), Sub(c, a))
  IN  /\ n # <<0, 0, 0>>
      /\ Dot(n, Sub(p, a)) = 0
      /\ Dot(n, Cross(Sub(b, a), Sub(p, a))) >= 0
      /\ Dot(n, Cross(Sub(c, b), Sub(p, b))) >= 0
      /\ Dot(n, Cross(Sub(a, c), Sub(p, c))) >= 0

InTetrahedron(p, a, b, c, d) ==
  LET o == Orient(a, b, c, d)
  IN  /\ o # 0
      /\ o * Orient(p, b, c, d) >= 0
      /\ o * Orient(a, p, c, d) >= 0
      /\ o * Orient(a, b, p, d) >= 0
      /\ o * Orient(a, b, c, p) >= 0

\* p is a convex combination of points of S (Caratheodory: of at most four).
InConvexHull(p, S) ==
  \/ p \in S
  \/ \E a, b \in S : InSegment(p, a, b)
  \/ \E a, b, c \in S : InTriangle(p, a, b, c)
  \/ \E a, b, c, d \in S : InTetrahedron(p, a, b, c, d)

ExtremePoints(S) == { p \in S : ~InConvexHull(p, S \ {p}) }

\* The extreme points of all sets of colours, computed once.
ExtremeTable == Tabulate([ S \in SUBSET Colors |-> ExtremePoints(S) ])

\* The input spans three dimensions.
FullDimensional(S) == \E a, b, c, d \in S : Orient(a, b, c, d) # 0

Key(p) == p[1] * 65536 + p[2] * 256 + p[3]

RECURSIVE SortByKey(_)
SortByKey(S) ==
  IF S = {} THEN << >>
  ELSE LET m == CHOOSE x \in S : \A y \in S : Key(x) <= Key(y)
       IN  <<m>> \o SortByKey(S \ {m})

Reverse(s) == [ i \in 1..Len(s) |-> s[Len(s) + 1 - i] ]

\* The six orders of three things.
Perms3 ==
  << <<1, 2, 3>>, <<2, 1, 3>>, <<1, 3, 2>>, <<3, 2, 1>>, <<2, 3, 1>>, <<3, 1, 2>> >>

\* What the library leaves open: whether it lists the vertices in ascending
\* or descending key order, and in which order it lists a facet's vertices.
LibChoices == [ rev : BOOLEAN, perm : 1..6 ]

\* The triangles of the boundary of the hull of the vertex set V: all other
\* vertices lie strictly on one side.
BoundaryTriangles(V) ==
  { t \in SUBSET V :
      /\ Cardinality(t) = 3
      /\ LET s == SortByKey(t)
         IN  \/ \A w \in V \ t : Orient(s[1], s[2], s[3], w) < 0
             \/ \A w \in V \ t : Orient(s[1], s[2], s[3], w) > 0 }

\* The outward normal of the boundary triangle t (unnormalised).
OutwardNormal(V, t) ==
  LET s == SortByKey(t)
      n == Cross(Sub(s[2], s[1]), Sub(s[3], s[1]))
  IN  IF \E w \in V \ t : Dot(n, Sub(w, s[1])) > 0
      THEN << 0 - n[1], 0 - n[2], 0 - n[3] >>
      ELSE n

\* The library rejected the input: there is no hull.
HullConstructionFailed == [ ok |-> FALSE ]

VertexId(p) == 1000 + Key(p)

FacetId(t) ==
  LET s == SortByKey(t) IN 7 + Key(s[1]) + 3 * Key(s[2]) + 5 * Key(s[3])

\* RawHull::from_iter: the library's answer for the point set S under the
\* choice lib.
RawHull_from_iter(S, lib) ==
  IF ~FullDimensional(S) THEN HullConstructionFailed
  ELSE
    LET V == ExtremeTable[S]
        vs == IF lib.rev THEN Reverse(SortByKey(V)) ELSE SortByKey(V)
        ts == BoundaryTriangles(V)
        tseq == SortByKey({ << 0, 0, FacetId(t) >> : t \in ts })
        TriOf(k) == CHOOSE t \in ts : FacetId(t) = k[3]
        Listed(t) ==
          LET s == SortByKey(t) IN [ i \in 1..3 |-> s[Perms3[lib.perm][i]] ]
        \* the neighbour listed at position i is the facet across the edge
        \* opposite the facet's i-th vertex
        Opposite(t, p) ==
          CHOOSE u \in ts : u # t /\ (t \ {p}) \subseteq u
    IN  [ ok |-> TRUE,
          vertices |-> [ i \in 1..Len(vs) |->
                           [ id |-> VertexId(vs[i]), point |-> vs[i] ] ],
          facets |-> [ i \in 1..Len(tseq) |->
             LET t == TriOf(tseq[i])
                 l == Listed(t)
                 n == OutwardNormal(V, t)
             IN  [ id |-> FacetId(t),
                   vertices |-> [ j \in 1..3 |-> VertexId(l[j]) ],
                   neighbors |-> [ j \in 1..3 |-> FacetId(Opposite(t, l[j])) ],
                   normal |-> n,
                   offset |-> 0 - Dot(n, l[1]) ] ] ]

\* ---------------------------------------------------- ConvexHull facade

\* The index a raw id got in the facade's struct-of-arrays (the HashMaps
\* vertex_id_map and facet_id_map).
IndexOfId(items, id) == CHOOSE i \in 1..Len(items) : items[i].id = id

\* The orientation repair of one facet: the first two vertices (and the
\* first two neighbours) are swapped when the stored order disagrees with
\* the normal.
SwapFirstTwo(t) == << t[2], t[1], t[3] >>

\* The test of convex_hull.rs:83 with the comparison turned round.
NeedsSwap_inverted(vertices, facet, normal) ==
  LET p0 == vertices[facet[1]]
      p1 == vertices[facet[2]]
      p2 == vertices[facet[3]]
      n == Cross(Sub(p1, p0), Sub(p2, p0))
  IN  Dot(normal, n) > 0

NeedsSwap(vertices, facet, normal) ==
  LET p0 == vertices[facet[1]]
      p1 == vertices[facet[2]]
      p2 == vertices[facet[3]]
      n == Cross(Sub(p1, p0), Sub(p2, p0))
  IN  Dot(normal, n) < 0

\* ConvexHull::from_qhull_raw for N = 3.
from_qhull_raw(hull) ==
  LET vertices == [ i \in 1..Len(hull.vertices) |-> hull.vertices[i].point ]
      offsets_and_normals ==
        [ i \in 1..Len(hull.facets) |->
            << hull.facets[i].normal, hull.facets[i].offset >> ]
      facets ==
        [ i \in 1..Len(hull.facets) |->
            [ j \in 1..3 |-> IndexOfId(hull.vertices, hull.facets[i].vertices[j]) ] ]
      neighbors ==
        [ i \in 1..Len(hull.facets) |->
            [ j \in 1..3 |-> IndexOfId(hull.facets, hull.facets[i].neighbors[j]) ] ]
      swap == [ i \in 1..Len(facets) |->
                  NeedsSwap(vertices, facets[i], offsets_and_normals[i][1]) ]
  IN  [ ok |-> TRUE,
        vertices |-> vertices,
        facets |-> [ i \in 1..Len(facets) |->
                       IF swap[i] THEN SwapFirstTwo(facets[i]) ELSE facets[i] ],
        neighbors |-> [ i \in 1..Len(facets) |->
                       IF swap[i] THEN SwapFirstTwo(neighbors[i]) ELSE neighbors[i] ],
        offsets_and_normals |-> offsets_and_normals ]

\* ConvexHull::from_iter / from_arrays: the hull of a sequence of points.  A
\* rejected input has no hull (the constructor has no error to return).
HullOfSet(S, lib) ==
  LET raw == RawHull_from_iter(S, lib)
  IN  IF raw.ok THEN from_qhull_raw(raw) ELSE HullConstructionFailed

\* The hulls of all sets of colours, computed once.
HullTable ==
  Tabulate([ k \in (SUBSET Colors) \X LibChoices |-> HullOfSet(k[1], k[2]) ])

ConvexHull_from_iter(points, lib) == HullTable[<< Range(points), lib >>]

\* ------------------------------------------------------------ the API
\* image-palette-recoloring/src/lib.rs

\* Largest image.
MaxWidth == 3

MaxHeight == 3

\* Most vertices the 5-d hull of an image has.
MaxHullVertices == 7

None == [ some |-> FALSE ]

Min(a, b) == IF a < b THEN a ELSE b

Max(a, b) == IF a < b THEN b ELSE a

Images == [ width : 1..MaxWidth, height : 1..MaxHeight ]

\* What the hull library and the triangulation can answer for the 5-d
\* points of an image: no hull (fewer than six affinely independent points:
\* always so when x or y takes a single value or there are fewer than six
\* pixels), or n hull vertices of which the triangulation keeps m.
RgbxyOutcomes(img) ==
  { [ ok |-> FALSE, n |-> 0, m |-> 0 ] } \cup
  UNION { { [ ok |-> TRUE, n |-> n, m |-> m ] :
              m \in { k \in {n - 1, n} :
                        k >= 6 /\ img.width >= 2 /\ img.height >= 2 } } :
          n \in 6..Min(img.width * img.height, MaxHullVertices) }

\* The positions img.pixels() yields from (x, y) on: along a row of the
\* image, then on to the next row.
RECURSIVE img_pixels(_, _, _)
img_pixels(img, x, y) ==
  IF y >= img.height THEN << >>
  ELSE IF x >= img.width THEN img_pixels(img, 0, y + 1)
  ELSE << << x, y >> >> \o img_pixels(img, x + 1, y)

\* ImageWeights::new, given the library's answer. row_pixels records the
\* pixel whose triplets have the row index i: the i-th img.pixels() yields,
\* counted from 0 (lib.rs:63, 87-91).
ImageWeights_new(img, lib) ==
  LET vertex_count == lib.n
      row_count == img.height * img.width
  IN  [ some |-> TRUE,
        weights |-> [ nrows |-> row_count, ncols |-> vertex_count ],
        row_pixels |-> img_pixels(img, 0, 0),
        ch_rgb_vertices |-> lib.m,
        width |-> img.width,
        height |-> img.height ]

\* The position of the first palette colour equal to c.
Position(palette, c) ==
  CHOOSE i \in 1..Len(palette) :
    /\ palette[i] = c
    /\ \A j \in 1..(i - 1) : palette[j] # c

\* compute_star_triangulation_coordinates: the shape of the matrix it
\* returns and its map from hull vertex indices to palette indices.
compute_star_triangulation_coordinates(palette, palette_ch, img_rgb_values) ==
  LET palette_ch_vertex_map ==
        [ i \in 1..Len(palette_ch.vertices) |->
            Position(palette, palette_ch.vertices[i]) ]
      palette_size == Len(palette_ch.vertices)
  IN  [ nrows |-> img_rgb_values,
        ncols |-> palette_size,
        palette_ch_vertex_map |-> palette_ch_vertex_map ]

\* The check of lib.rs:167 leaving out the last colour of the palette.
Redundant_skipping_last(palette, palette_ch) ==
  \E i \in 1..(Len(palette) - 1) :
    \A v \in 1..Len(palette_ch.vertices) : palette_ch.vertices[v] # palette[i]

Redundant(palette, palette_ch) ==
  \E i \in 1..Len(palette) :
    \A v \in 1..Len(palette_ch.vertices) : palette_ch.vertices[v] # palette[i]

\* DecomposedImage::new from the hull of the palette on (lib.rs:163-187):
\* the redundancy check, the palette matrix and the product with the
\* weights.
DecomposedImage_from_hull(img, palette, palette_ch) ==
  IF ~palette_ch.ok
  THEN [ kind |-> "panic", err |-> "HullConstructionFailed",
         hull_built |-> TRUE, value |-> None ]
  ELSE IF Redundant(palette, palette_ch)
  THEN [ kind |-> "Err", err |-> "RedundantPalette", hull_built |-> TRUE,
         value |-> None ]
  ELSE
    LET palette_matrix ==
          compute_star_triangulation_coordinates(
            palette, palette_ch, img.ch_rgb_vertices)
    IN  IF img.weights.ncols # palette_matrix.nrows
        THEN [ kind |-> "panic", err |-> "DimensionMismatch",
               hull_built |-> TRUE, value |-> None ]
        ELSE [ kind |-> "Ok", err |-> "", hull_built |-> TRUE,
               value |-> [ some |-> TRUE,
                           matrix |-> [ nrows |-> img.weights.nrows,
                                        ncols |-> palette_matrix.ncols ],
                           row_pixels |-> img.row_pixels,
                           width |-> img.width,
                           height |-> img.height ] ]

\* DecomposedImage::new with the hull of the palette asked for before the
\* palette's length is looked at.
DecomposedImage_new_hull_first(img, palette, lib) ==
  IF ~ConvexHull_from_iter(palette, lib).ok \/ Len(palette) >= 4
  THEN DecomposedImage_from_hull(img, palette,
                                 ConvexHull_from_iter(palette, lib))
  ELSE [ kind |-> "Err", err |-> "PaletteTooSmall", hull_built |-> TRUE,
         value |-> None ]

\* DecomposedImage::new.  hull_built records whether the palette's hull was
\* asked of the library.
DecomposedImage_new(img, palette, lib) ==
  IF Len(palette) < 4
  THEN [ kind |-> "Err", err |-> "PaletteTooSmall", hull_built |-> FALSE,
         value |-> None ]
  ELSE DecomposedImage_from_hull(img, palette,
                                 ConvexHull_from_iter(palette, lib))

num_channels(self) == self.matrix.ncols

\* get_channel_grayscale taking the channel n = K for one in range.
get_channel_grayscale_inclusive(self, n) ==
  IF n > self.matrix.ncols THEN [ kind |-> "None", value |-> None ]
  ELSE [ kind |-> "Some",
         value |-> [ some |-> TRUE, width |-> self.width,
                     height |-> self.height, pixels |-> self.matrix.nrows ] ]

\* The pixel ImageBuffer::from_vec gives the i-th element of the buffer
\* to, counted from 0.
from_vec_position(width, i) == << i % width, i \div width >>

\* DecomposedImage::get_channel_grayscale: no image for a channel out of
\* range; ImageBuffer::from_vec refuses a buffer shorter than the image.
\* positions records the pixel the value of each row went to.
get_channel_grayscale(self, n) ==
  IF n >= self.matrix.ncols THEN [ kind |-> "None", value |-> None ]
  ELSE
    LET vec == self.matrix.nrows
    IN  IF vec < self.width * self.height
        THEN [ kind |-> "panic", value |-> None ]
        ELSE [ kind |-> "Some",
               value |-> [ some |-> TRUE, width |-> self.width,
                           height |-> self.height, pixels |-> vec,
                           positions |-> [ i \in 1..vec |-> from_vec_position(self.width, i - 1) ] ] ]

\* reconstruct refusing only the palettes that are too long.
reconstruct_too_long_only(self, palette) ==
  IF Len(palette) > num_channels(self) THEN [ kind |-> "None", value |-> None ]
  ELSE [ kind |-> "Some",
         value |-> [ some |-> TRUE, width |-> self.width,
                     height |-> self.height,
                     pixels |-> self.width * self.height ] ]

\* The position taken with the height in place of the width.
put_pixel_position_by_height(self, i) == << i % self.height, i \div self.height >>

\* lib.rs:236-238: the pixel row i of the product is put at.
put_pixel_position(self, i) == << i % self.width, i \div self.width >>

\* DecomposedImage::reconstruct: no image for a palette of another size;
\* put_pixel refuses a position outside the image. positions records the
\* pixel each row went to.
reconstruct(self, palette) ==
  IF Len(palette) # num_channels(self) THEN [ kind |-> "None", value |-> None ]
  ELSE
    IF \E i \in 0..(self.matrix.nrows - 1) : put_pixel_position(self, i)[1] >= self.width \/ put_pixel_position(self, i)[2] >= self.height
    THEN [ kind |-> "panic", value |-> None ]
    ELSE [ kind |-> "Some",
           value |-> [ some |-> TRUE, width |-> self.width,
                       height |-> self.height,
                       pixels |-> self.width * self.height,
                       positions |-> [ i \in 1..self.matrix.nrows |-> put_pixel_position(self, i - 1) ] ] ]

\* -------------------------------------------------- the palette extractor
\* image-palette-recoloring/src/palette.rs.  The hull of the image's pixels
\* is computed; the hulls after an edge collapse depend on the LP solver
\* and on floating point, and are given by the number of their vertices
\* and by the pixel error compute_pixel_error measures on them.

\* Largest min_palette_size and max_palette_size asked for.
MaxSize == 6

\* Largest pixel error (in units of the smallest error bound above zero).
MaxErr == 1

Errors == 0..MaxErr

\* f64::INFINITY as an error bound: above every error.
Infinity == MaxErr + 1

ErrorBounds == Errors \cup { Infinity }

\* What the hull library can answer for the v - 1 points left after a
\* collapse of a hull of v vertices: no hull, or a hull whose vertices are
\* among the points given.
CollapsedHulls(v) ==
  { [ ok |-> FALSE, vcount |-> 0, error |-> 0 ] } \cup
  { [ ok |-> TRUE, vcount |-> k, error |-> e ] : k \in 4..(v - 1), e \in Errors }

cpIdle ==
  [ pc |-> "idle", solid |-> FALSE, n |-> 0, min_palette_size |-> 0,
    max_palette_size |-> 0, error_bound |-> 0, vcount |-> 0, error |-> 0,
    previous_vcount |-> 0, image_vcount |-> 0, collapses |-> 0, stop |-> "",
    palette |-> 0 ]

\* compute_palette's arguments, min_palette_size clamped (palette.rs:46).
compute_palette_args(pixels, min_palette_size, max_palette_size, error_bound) ==
  [ cpIdle EXCEPT !.solid = (Cardinality(pixels) = 1),
                  !.n = min_palette_size,
                  !.min_palette_size = Max(min_palette_size, 4),
                  !.max_palette_size = max_palette_size,
                  !.error_bound = error_bound ]

\* The loop is entered with the hull ch of the pixels; without a hull the
\* call does not return.
compute_palette_enter(args, ch, error) ==
  IF ~ch.ok THEN [ args EXCEPT !.pc = "panic" ]
  ELSE [ args EXCEPT !.pc = "while",
                     !.vcount = Len(ch.vertices),
                     !.error = error,
                     !.previous_vcount = Len(ch.vertices),
                     !.image_vcount = Len(ch.vertices) ]

\* compute_palette up to the loop (pixels: the set of the image's colours;
\* error: what compute_pixel_error measures on their hull).
compute_palette_begin(pixels, min_palette_size, max_palette_size, error_bound, error, lib) ==
  compute_palette_enter(
    compute_palette_args(pixels, min_palette_size, max_palette_size, error_bound),
    ConvexHull_from_iter(SortByKey(pixels), lib),
    error)

\* The body of the loop with a gate that stops at any error above zero,
\* whatever error_bound is.
compute_palette_body_bound_unread(s, located, new_hull) ==
  IF ~located THEN [ s EXCEPT !.pc = "panic", !.stop = "no candidate" ]
  ELSE IF ~new_hull.ok THEN [ s EXCEPT !.pc = "panic", !.stop = "no hull" ]
  ELSE IF s.vcount <= s.max_palette_size /\ s.error > 0
  THEN [ s EXCEPT !.pc = "break", !.stop = "gate" ]
  ELSE [ s EXCEPT !.vcount = new_hull.vcount, !.error = new_hull.error,
                  !.previous_vcount = new_hull.vcount,
                  !.collapses = s.collapses + 1 ]

\* The body of the loop without `ch = new_hull`: the collapse is counted and
\* the hull stays.
compute_palette_body_hull_kept(s, located, new_hull) ==
  IF ~located THEN [ s EXCEPT !.pc = "panic", !.stop = "no candidate" ]
  ELSE IF ~new_hull.ok THEN [ s EXCEPT !.pc = "panic", !.stop = "no hull" ]
  ELSE IF s.vcount <= s.max_palette_size /\ s.error > s.error_bound
  THEN [ s EXCEPT !.pc = "break", !.stop = "gate" ]
  ELSE [ s EXCEPT !.collapses = s.collapses + 1 ]

\* One pass through the body of the loop.  located: locate_edge_to_collapse
\* found a candidate edge (it unwraps the best of none otherwise);
\* new_hull: the library's answer for the collapsed point set.
compute_palette_body(s, located, new_hull) ==
  IF ~located THEN [ s EXCEPT !.pc = "panic", !.stop = "no candidate" ]
  ELSE IF ~new_hull.ok THEN [ s EXCEPT !.pc = "panic", !.stop = "no hull" ]
  ELSE IF s.vcount <= s.max_palette_size /\ s.error > s.error_bound
  THEN [ s EXCEPT !.pc = "break", !.stop = "gate" ]
  ELSE
    LET vcount == new_hull.vcount
        t == [ s EXCEPT !.vcount = vcount, !.error = new_hull.error,
                        !.collapses = s.collapses + 1 ]
    IN  IF vcount = s.previous_vcount
        THEN [ t EXCEPT !.pc = "break", !.stop = "noshrink" ]
        ELSE [ t EXCEPT !.previous_vcount = vcount ]

\* The loop is left and the hull's vertices are returned, one colour each.
compute_palette_end(s) ==
  [ s EXCEPT !.pc = "done",
             !.stop = IF s.pc = "break" THEN s.stop ELSE "size",
             !.palette = s.vcount ]

\* ------------------------------------------------------------ the simplex
\* searcher, qhull-rs/src/delaunay.rs, and the pixel loop of
\* ImageWeights::new that drives it (lib.rs:59-92). The searcher is generic
\* in the dimension; it is taken at NDim = 3 here, over integer points, with
\* exact fractions in place of f64. Indices count from 1, so the source's
\* simplex i is simplex i + 1 here.

\* The dimension the searcher is instantiated at.
NDim == 3

\* The marker of a neighbour that is not in the triangulation.
NON_SIMPLEX_IDX == 0

\* INITAL_TOLERANCE = 1e-10 is 1 / (2^10 * 5^10).
FiveToTen == 9765625

\* Most doublings of the tolerance followed for one pixel.
MaxDoublings == 36

\* Longest list of pixels searched for.
MaxPixels == 2

Frac(n, d) == IF d < 0 THEN [ n |-> 0 - n, d |-> 0 - d ] ELSE [ n |-> n, d |-> d ]

\* The buffer lib.rs:60 starts from.
ZeroCoords == [ i \in 1..(NDim + 1) |-> Frac(0, 1) ]

\* Quotient and remainder by 5^10 of twice the number p gives them for.
Twice(p) == << 2 * p[1] + (IF 2 * p[2] >= FiveToTen THEN 1 ELSE 0), (2 * p[2]) % FiveToTen >>

\* Quotient and remainder of b * 2^k by 5^10, without leaving 32 bits.
RECURSIVE ScaledDivMod(_, _)
ScaledDivMod(b, k) ==
  IF k = 0 THEN << b \div FiveToTen, b % FiveToTen >>
  ELSE Twice(ScaledDivMod(b, k - 1))

\* n / d <= eps for n >= 0 and d > 0, where eps counts the doublings of the
\* tolerance: the tolerance is 1e-10 * 2^eps.
LeEps(n, d, eps) ==
  IF eps >= 10 THEN n <= ScaledDivMod(d, eps - 10)[1]
  ELSE n * 2^(10 - eps) <= d \div FiveToTen

\* c < -eps
LtNegEps(c, eps) == c.n < 0 /\ ~LeEps(0 - c.n, c.d, eps)

\* c <= 1.0 + eps
LeOnePlusEps(c, eps) == c.n <= c.d \/ LeEps(c.n - c.d, c.d, eps)

\* c >= -eps_broad, with eps_broad = eps.sqrt()
GeNegEpsBroad(c, eps) == c.n >= 0 \/ LeEps(c.n * c.n, c.d * c.d, eps)

\* The neighbours of a simplex as the library reports them: the k-th is the
\* simplex that shares every vertex but the k-th.
NeighborsOf(simplices, s) ==
  [ k \in 1..(NDim + 1) |->
      LET face == Range(simplices[s]) \ { simplices[s][k] }
          others == { t \in 1..Len(simplices) :
                        t # s /\ face \subseteq Range(simplices[t]) }
      IN  IF others = {} THEN NON_SIMPLEX_IDX ELSE CHOOSE t \in others : TRUE ]

Delaunay(vertices, simplices) ==
  [ vertices |-> vertices, simplices |-> simplices,
    neighbors |-> [ s \in 1..Len(simplices) |-> NeighborsOf(simplices, s) ] ]

\* Column k of the matrix T of a simplex: its k-th vertex minus its last.
Column(tri, s, k) == Sub(tri.vertices[tri.simplices[s][k]], tri.vertices[tri.simplices[s][NDim + 1]])

\* The inverse of the matrix with columns t1, t2, t3 as its adjugate, to be
\* divided by det; the inversion fails exactly when det = 0.
Inverse(t1, t2, t3, last_row) ==
  [ t_inv |-> << Cross(t2, t3), Cross(t3, t1), Cross(t1, t2) >>,
    det |-> Dot(t1, Cross(t2, t3)),
    r_vec |-> last_row ]

BarycentricTransformation_new(tri, s) == Inverse(Column(tri, s, 1), Column(tri, s, 2), Column(tri, s, 3), tri.vertices[tri.simplices[s][NDim + 1]])

is_degenerate(transform) == transform.det = 0

\* output[i] of solve and iter_bcoords for i < ndim, times det.
Numerator(transform, point, i) == Dot(transform.t_inv[i], Sub(point, transform.r_vec))

\* det minus the first k numerators: what output[ndim] holds, times det,
\* once k coordinates are computed.
RECURSIVE Remainder(_, _, _)
Remainder(transform, point, k) ==
  IF k = 0 THEN transform.det
  ELSE Remainder(transform, point, k - 1) - Numerator(transform, point, k)

solve(transform, point) ==
  [ i \in 1..(NDim + 1) |->
      IF i <= NDim THEN Frac(Numerator(transform, point, i), transform.det)
      ELSE Frac(Remainder(transform, point, NDim), transform.det) ]

\* The buffer once iter_bcoords has yielded its first k coordinates: those
\* are written, the last entry holds 1 minus their sum, the others are as
\* they were.
iter_bcoords(transform, point, output, k) ==
  [ i \in 1..(NDim + 1) |->
      IF i <= NDim
      THEN IF i <= k THEN Frac(Numerator(transform, point, i), transform.det)
           ELSE output[i]
      ELSE Frac(Remainder(transform, point, Min(k, NDim)), transform.det) ]

\* SimplexSearcher::new: the bounds of the vertices along axis x.
max_bounds(tri, x) == CHOOSE m \in { tri.vertices[v][x] : v \in 1..Len(tri.vertices) } : \A v \in 1..Len(tri.vertices) : tri.vertices[v][x] <= m

min_bounds(tri, x) == CHOOSE m \in { tri.vertices[v][x] : v \in 1..Len(tri.vertices) } : \A v \in 1..Len(tri.vertices) : tri.vertices[v][x] >= m

\* The two early returns of find_best_simplex_bruteforce.
OutOfBounds(tri, eps, point) ==
  \E x \in 1..NDim :
    \/ point[x] > max_bounds(tri, x) /\ ~LeEps(point[x] - max_bounds(tri, x), 1, eps)
    \/ point[x] < min_bounds(tri, x) /\ ~LeEps(min_bounds(tri, x) - point[x], 1, eps)

\* Every coordinate within [-eps, 1 + eps].
AllInside(coords, eps) ==
  \A k \in 1..(NDim + 1) : ~LtNegEps(coords[k], eps) /\ LeOnePlusEps(coords[k], eps)

\* The test find_best_simplex_bruteforce applies to a neighbour of the
\* degenerate simplex i: the buffer as it stands is compared, entry by
\* entry, with the neighbours of that neighbour.
inside(tri, eps, bcoords, neighbor, i) ==
  \A k \in 1..(NDim + 1) :
    tri.neighbors[neighbor][k] # NON_SIMPLEX_IDX =>
      IF tri.neighbors[neighbor][k] = i
      THEN GeNegEpsBroad(bcoords[k], eps) /\ LeOnePlusEps(bcoords[k], eps)
      ELSE ~LtNegEps(bcoords[k], eps) /\ LeOnePlusEps(bcoords[k], eps)

\* The positions of the neighbours of the degenerate simplex i that pass.
PassingNeighbors(tri, eps, bcoords, i) ==
  { k \in 1..(NDim + 1) :
      /\ tri.neighbors[i][k] # NON_SIMPLEX_IDX
      /\ ~is_degenerate(BarycentricTransformation_new(tri, tri.neighbors[i][k]))
      /\ inside(tri, eps, bcoords, tri.neighbors[i][k], i) }

Least(S) == CHOOSE k \in S : \A l \in S : k <= l

Found(idx, bcoords, start_hint) == [ panic |-> FALSE, found |-> TRUE, idx |-> idx, bcoords |-> bcoords, start_hint |-> start_hint ]

NotFound(bcoords, start_hint) == [ panic |-> FALSE, found |-> FALSE, idx |-> NON_SIMPLEX_IDX, bcoords |-> bcoords, start_hint |-> start_hint ]

\* The scan of find_best_simplex_bruteforce from simplex i on.
RECURSIVE bruteforce_scan(_, _, _, _, _, _)
bruteforce_scan(tri, eps, point, bcoords, start_hint, i) ==
  IF i > Len(tri.simplices) THEN NotFound(bcoords, start_hint)
  ELSE IF ~is_degenerate(BarycentricTransformation_new(tri, i))
  THEN IF AllInside(solve(BarycentricTransformation_new(tri, i), point), eps)
       THEN Found(i, solve(BarycentricTransformation_new(tri, i), point), start_hint)
       ELSE bruteforce_scan(tri, eps, point, solve(BarycentricTransformation_new(tri, i), point), start_hint, i + 1)
  ELSE IF PassingNeighbors(tri, eps, bcoords, i) # {}
  THEN Found(tri.neighbors[i][Least(PassingNeighbors(tri, eps, bcoords, i))], bcoords, start_hint)
  ELSE bruteforce_scan(tri, eps, point, bcoords, start_hint, i + 1)

find_best_simplex_bruteforce(tri, eps, point, bcoords, start_hint) ==
  IF OutOfBounds(tri, eps, point) THEN NotFound(bcoords, start_hint)
  ELSE bruteforce_scan(tri, eps, point, bcoords, start_hint, 1)

\* The end of find_best_simplex_directed: the bruteforce fallback, with the
\* hint set on success.
Fallback(result) == IF result.found THEN [ result EXCEPT !.start_hint = result.idx ] ELSE result

\* The positions of the coordinates below -eps.
Negative(coords, eps) == { k \in 1..(NDim + 1) : LtNegEps(coords[k], eps) }

\* The refinement with the scan forced at the outer boundary, in place of
\* the answer that nothing was found.
RECURSIVE directed_cycles_forced_bruteforce(_, _, _, _, _, _, _)
directed_cycles_forced_bruteforce(tri, eps, point, simplex, bcoords, start_hint, cycles) ==
  IF cycles = 0 \/ is_degenerate(BarycentricTransformation_new(tri, simplex))
  THEN Fallback(find_best_simplex_bruteforce(tri, eps, point, bcoords, start_hint))
  ELSE IF Negative(solve(BarycentricTransformation_new(tri, simplex), point), eps) # {}
  THEN IF tri.neighbors[simplex][Least(Negative(solve(BarycentricTransformation_new(tri, simplex), point), eps))] # NON_SIMPLEX_IDX
       THEN directed_cycles_forced_bruteforce(tri, eps, point,
              tri.neighbors[simplex][Least(Negative(solve(BarycentricTransformation_new(tri, simplex), point), eps))],
              iter_bcoords(BarycentricTransformation_new(tri, simplex), point, bcoords,
                           Least(Negative(solve(BarycentricTransformation_new(tri, simplex), point), eps))),
              start_hint, cycles - 1)
       ELSE Fallback(find_best_simplex_bruteforce(tri, eps, point,
                       iter_bcoords(BarycentricTransformation_new(tri, simplex), point, bcoords,
                                    Least(Negative(solve(BarycentricTransformation_new(tri, simplex), point), eps))),
                       start_hint))
  ELSE IF \A k \in 1..(NDim + 1) : LeOnePlusEps(solve(BarycentricTransformation_new(tri, simplex), point)[k], eps)
  THEN Found(simplex, solve(BarycentricTransformation_new(tri, simplex), point), simplex)
  ELSE Fallback(find_best_simplex_bruteforce(tri, eps, point, solve(BarycentricTransformation_new(tri, simplex), point), start_hint))

\* find_best_simplex_directed with the given number of cycles left.
RECURSIVE directed_cycles(_, _, _, _, _, _, _)
directed_cycles(tri, eps, point, simplex, bcoords, start_hint, cycles) ==
  IF cycles = 0 \/ is_degenerate(BarycentricTransformation_new(tri, simplex))
  THEN Fallback(find_best_simplex_bruteforce(tri, eps, point, bcoords, start_hint))
  ELSE IF Negative(solve(BarycentricTransformation_new(tri, simplex), point), eps) # {}
  THEN IF tri.neighbors[simplex][Least(Negative(solve(BarycentricTransformation_new(tri, simplex), point), eps))] # NON_SIMPLEX_IDX
       THEN directed_cycles(tri, eps, point,
              tri.neighbors[simplex][Least(Negative(solve(BarycentricTransformation_new(tri, simplex), point), eps))],
              iter_bcoords(BarycentricTransformation_new(tri, simplex), point, bcoords,
                           Least(Negative(solve(BarycentricTransformation_new(tri, simplex), point), eps))),
              start_hint, cycles - 1)
       ELSE NotFound(iter_bcoords(BarycentricTransformation_new(tri, simplex), point, bcoords,
                                  Least(Negative(solve(BarycentricTransformation_new(tri, simplex), point), eps))),
                     simplex)
  ELSE IF \A k \in 1..(NDim + 1) : LeOnePlusEps(solve(BarycentricTransformation_new(tri, simplex), point)[k], eps)
  THEN Found(simplex, solve(BarycentricTransformation_new(tri, simplex), point), simplex)
  ELSE Fallback(find_best_simplex_bruteforce(tri, eps, point, solve(BarycentricTransformation_new(tri, simplex), point), start_hint))

\* A cycle for every simplex, and one more.
max_cycles_per_simplex(tri) == Len(tri.simplices) + 1

\* delaunay.rs:493: the cycles the directed refinement may take.
max_cycles(tri) == Len(tri.simplices) \div 4 + 1

find_best_simplex_directed(tri, eps, point, start, bcoords, start_hint) == directed_cycles(tri, eps, point, start, bcoords, start_hint, max_cycles(tri))

\* The simplices the loop of find_best_simplex_directed looks at, from
\* simplex on and with the given number of cycles left: one for every cycle
\* begun.
RECURSIVE directed_visits(_, _, _, _, _)
directed_visits(tri, eps, point, simplex, cycles) ==
  IF cycles = 0 THEN 0
  ELSE IF is_degenerate(BarycentricTransformation_new(tri, simplex)) THEN 1
  ELSE IF Negative(solve(BarycentricTransformation_new(tri, simplex), point), eps) = {} THEN 1
  ELSE IF tri.neighbors[simplex][Least(Negative(solve(BarycentricTransformation_new(tri, simplex), point), eps))] = NON_SIMPLEX_IDX THEN 1
  ELSE 1 + directed_visits(tri, eps, point,
             tri.neighbors[simplex][Least(Negative(solve(BarycentricTransformation_new(tri, simplex), point), eps))],
             cycles - 1)

\* The simplices the descent of find_simplex_mut can end at: it moves from a
\* simplex to one of its neighbours, as the plane distances the library
\* stored direct it.
RECURSIVE Reachable(_, _)
Reachable(tri, S) ==
  IF \A s \in S : \A k \in 1..(NDim + 1) : tri.neighbors[s][k] \in S \cup { NON_SIMPLEX_IDX }
  THEN S
  ELSE Reachable(tri, S \cup ({ tri.neighbors[s][k] : s \in S, k \in 1..(NDim + 1) } \ { NON_SIMPLEX_IDX }))

\* The simplex find_simplex_mut starts from: the hint, or the source's
\* simplex 1 when there is none.
start_simplex_idx(start_hint) == IF start_hint = NON_SIMPLEX_IDX THEN 2 ELSE start_hint

\* find_simplex_mut with the descent ending at simplex walked. With the
\* bruteforce flag on, the scan answers and nothing else runs.
find_simplex_mut(tri, eps, bruteforce, point, bcoords, start_hint, walked) ==
  IF bruteforce THEN find_best_simplex_bruteforce(tri, eps, point, bcoords, start_hint)
  ELSE IF start_simplex_idx(start_hint) > Len(tri.simplices)
  THEN [ panic |-> TRUE, found |-> FALSE, idx |-> NON_SIMPLEX_IDX, bcoords |-> bcoords, start_hint |-> start_hint ]
  ELSE find_best_simplex_directed(tri, eps, point, walked, bcoords, start_hint)

\* What the library can answer for a point set, and the pixels the points
\* came from. The hull vertices are a pyramid over a square, its apex on
\* the sphere through the square's corners, so that the flat simplex of the
\* four corners is one of the answers; in the last the library has left the
\* hull vertex (2, 2, -2) out of the triangulation. The last is a fan of
\* four simplices around the edge from (2, 0, 0) to (2, 0, 2).
Triangulations ==
  << [ tri |-> Delaunay(<< <<0, 0, 0>>, <<4, 0, 0>>, <<0, 4, 0>>, <<0, 0, 4>> >>,
                        << <<1, 2, 3, 4>> >>),
       pixels |-> { <<0, 0, 0>>, <<0, 0, 4>>, <<1, 1, 1>> } ],
     [ tri |-> Delaunay(<< <<0, 0, 0>>, <<4, 0, 0>>, <<4, 4, 0>>, <<2, 2, 4>>, <<0, 4, 0>> >>,
                        << <<1, 2, 3, 4>>, <<1, 3, 5, 4>> >>),
       pixels |-> { <<0, 0, 0>>, <<2, 2, 4>>, <<3, 1, 1>>, <<1, 3, 1>> } ],
     [ tri |-> Delaunay(<< <<0, 0, 0>>, <<4, 0, 0>>, <<4, 4, 0>>, <<0, 4, 0>>, <<2, 2, 4>> >>,
                        << <<1, 2, 3, 4>>, <<1, 2, 3, 5>>, <<1, 3, 4, 5>> >>),
       pixels |-> { <<0, 0, 0>>, <<2, 2, 4>>, <<3, 1, 1>>, <<1, 3, 1>> } ],
     [ tri |-> Delaunay(<< <<0, 0, 0>>, <<4, 0, 0>>, <<4, 4, 0>>, <<2, 2, 4>>, <<0, 4, 0>> >>,
                        << <<1, 2, 3, 4>>, <<1, 2, 3, 5>>, <<1, 3, 5, 4>> >>),
       pixels |-> { <<0, 0, 0>>, <<2, 2, 4>>, <<3, 1, 1>>, <<1, 3, 1>> } ],
     [ tri |-> Delaunay(<< <<0, 0, 0>>, <<4, 0, 0>>, <<4, 4, 0>>, <<2, 2, 4>>, <<0, 4, 0>> >>,
                        << <<1, 2, 3, 4>>, <<1, 3, 5, 4>>, <<1, 2, 3, 5>> >>),
       pixels |-> { <<0, 0, 0>>, <<2, 2, 4>>, <<3, 1, 1>>, <<1, 3, 1>> } ],
     [ tri |-> Delaunay(<< <<0, 0, 0>>, <<4, 0, 0>>, <<4, 4, 0>>, <<2, 2, 4>>, <<0, 4, 0>> >>,
                        << <<1, 2, 3, 4>>, <<1, 3, 5, 4>> >>),
       pixels |-> { <<2, 2, -2>>, <<3, 1, 1>> } ],
     [ tri |-> Delaunay(<< <<2, 0, 0>>, <<2, 0, 2>>, <<4, 0, 1>>, <<4, 2, 1>>, <<2, 3, 1>>, <<0, 2, 1>>, <<0, 0, 1>> >>,
                        << <<1, 2, 3, 4>>, <<1, 2, 4, 5>>, <<1, 2, 5, 6>>, <<1, 2, 6, 7>> >>),
       pixels |-> { <<0, 0, 1>>, <<4, 2, 1>> } ] >>

\* ------------------------------------------------------ Delaunay facade

\* The faces of a triangulation with no simplex behind them, each as the
\* simplex and the position of the vertex opposite.
BoundaryFaces(tri) ==
  { f \in (1..Len(tri.simplices)) \X (1..(NDim + 1)) : tri.neighbors[f[1]][f[2]] = NON_SIMPLEX_IDX }

\* The vertices of such a face, in the order of its simplex.
FaceVertices(tri, f) == [ j \in 1..NDim |-> tri.simplices[f[1]][IF j < f[2] THEN j ELSE j + 1] ]

\* The point the library adds above the paraboloid, with an id and
\* coordinates of its own.
PointAtInfinity(tri) == [ id |-> 100 + Len(tri.vertices) + 1, point |-> << 9, 9, 9 >> ]

RawVertex(tri, v) == [ id |-> 100 + v, point |-> tri.vertices[v] ]

UpperId(f) == 300 + (NDim + 1) * f[1] + f[2]

\* A simplex of the lower hull as the library lists it: behind a face of
\* the boundary it has an upper-delaunay simplex for a neighbour.
RawLower(tri, s) ==
  [ id |-> 200 + s, upper |-> FALSE,
    vertices |-> [ k \in 1..(NDim + 1) |-> RawVertex(tri, tri.simplices[s][k]) ],
    neighbors |-> [ k \in 1..(NDim + 1) |->
                     IF tri.neighbors[s][k] = NON_SIMPLEX_IDX THEN UpperId(<< s, k >>) ELSE 200 + tri.neighbors[s][k] ] ]

\* The upper-delaunay simplex over the boundary face f: the face and the
\* added point. Its neighbours are the upper-delaunay simplices over the
\* faces across the edges of f and, opposite the added point, the simplex
\* of f.
RawUpper(tri, f) ==
  [ id |-> UpperId(f), upper |-> TRUE,
    vertices |-> [ k \in 1..(NDim + 1) |->
                    IF k <= NDim THEN RawVertex(tri, FaceVertices(tri, f)[k]) ELSE PointAtInfinity(tri) ],
    neighbors |-> [ k \in 1..(NDim + 1) |->
                     IF k > NDim THEN 200 + f[1]
                     ELSE UpperId(CHOOSE g \in BoundaryFaces(tri) :
                            /\ Range(FaceVertices(tri, g)) # Range(FaceVertices(tri, f))
                            /\ (Range(FaceVertices(tri, f)) \ { FaceVertices(tri, f)[k] }) \subseteq Range(FaceVertices(tri, g))) ] ]

\* The simplices the library lists for a triangulation: those of the lower
\* hull, and the upper-delaunay ones in the order of their ids.
RawDelaunay_simplices(tri) ==
  [ s \in 1..Len(tri.simplices) |-> RawLower(tri, s) ]
    \o [ i \in 1..Cardinality(BoundaryFaces(tri)) |->
          RawUpper(tri, CHOOSE f \in BoundaryFaces(tri) :
                          Cardinality({ g \in BoundaryFaces(tri) : UpperId(g) < UpperId(f) }) = i - 1) ]

\* delaunay.rs:58-61: the simplices that are not upper-delaunay, in the
\* order listed.
RECURSIVE lower_delaunay(_, _)
lower_delaunay(simplices, i) ==
  IF i > Len(simplices) THEN << >>
  ELSE IF simplices[i].upper THEN lower_delaunay(simplices, i + 1)
  ELSE << simplices[i] >> \o lower_delaunay(simplices, i + 1)

\* delaunay.rs:68-77: the vertices in the order vertex_id_map meets them,
\* from the k-th vertex of the i-th simplex on.
RECURSIVE captured_vertices(_, _, _, _)
captured_vertices(simplices, i, k, vertices) ==
  IF i > Len(simplices) THEN vertices
  ELSE IF k > NDim + 1 THEN captured_vertices(simplices, i + 1, 1, vertices)
  ELSE IF \E v \in 1..Len(vertices) : vertices[v].id = simplices[i].vertices[k].id
  THEN captured_vertices(simplices, i, k + 1, vertices)
  ELSE captured_vertices(simplices, i, k + 1, Append(vertices, simplices[i].vertices[k]))

\* The facade with the arrays given the captured vertices and the stored
\* simplices: delaunay.rs:78 and 81-95.
Delaunay_arrays(raw, vertices, stored) ==
  [ vertices |-> [ v \in 1..Len(vertices) |-> vertices[v].point ],
    simplices |-> [ j \in 1..Len(stored) |->
                     [ k \in 1..(NDim + 1) |-> IndexOfId(vertices, stored[j].vertices[k].id) ] ],
    neighbors |-> [ j \in 1..Len(stored) |->
                     [ k \in 1..(NDim + 1) |->
                         IF raw[IndexOfId(raw, stored[j].neighbors[k])].upper THEN NON_SIMPLEX_IDX
                         ELSE IndexOfId(stored, stored[j].neighbors[k]) ] ] ]

\* The facade with the vertices of every listed simplex captured.
Delaunay_from_qhull_raw_every_vertex(raw) ==
  Delaunay_arrays(raw, captured_vertices(raw, 1, 1, << >>), lower_delaunay(raw, 1))

\* Delaunay::from_qhull_raw for N = 3.
Delaunay_from_qhull_raw(raw) ==
  Delaunay_arrays(raw, captured_vertices(lower_delaunay(raw, 1), 1, 1, << >>), lower_delaunay(raw, 1))

\* No facade built yet.
NoFacade == [ raw |-> << >>, delaunay |-> [ vertices |-> << >>, simplices |-> << >>, neighbors |-> << >> ] ]

\* delaunay.rs:244-251: the sum plane_distance returns, from position i of
\* the point and the normal on.
RECURSIVE plane_distance_sum(_, _, _, _)
plane_distance_sum(sum, point, normal, i) ==
  IF i > Min(Len(point), Len(normal)) THEN sum
  ELSE plane_distance_sum(sum + (point[i] + normal[i]), point, normal, i + 1)

\* Simplex::plane_distance for a simplex with the given normal and offset.
plane_distance(normal, offset, point) == plane_distance_sum(offset, point, normal, 1)

\* The normals, offsets and lifted points plane_distance is followed for:
\* NDim + 1 coordinates each.
PlaneNormals == [ 1..(NDim + 1) -> { -1, 0, 1 } ]

PlaneOffsets == { -1, 0, 1 }

PlanePoints == [ 1..(NDim + 1) -> { 0, 2 } ]

\* No call of plane_distance yet.
NoPlane == [ normal |-> << >>, offset |-> 0, point |-> << >>, distance |-> 0 ]

\* No call of find_simplex_mut yet.
NoSearch == [ made |-> FALSE, bruteforce |-> FALSE, point |-> << >>, eps |-> 0, bcoords |-> ZeroCoords, start_hint |-> NON_SIMPLEX_IDX, walked |-> NON_SIMPLEX_IDX, found |-> FALSE, idx |-> NON_SIMPLEX_IDX, visits |-> 0 ]

ssIdle == [ pc |-> "idle", scene |-> 0, pixels |-> << >>, i |-> 0, eps |-> 0, start_hint |-> NON_SIMPLEX_IDX, bcoords |-> ZeroCoords, rows |-> << >>, palette |-> << >>, palette_matrix |-> << >>, matrix |-> << >>, search |-> NoSearch, plane |-> NoPlane, facade |-> NoFacade ]

\* lib.rs:48-68: the triangulation, its searcher, the buffer, and the
\* tolerance set for the first pixel.
ImageWeights_searcher(scene, pixels) == [ ssIdle EXCEPT !.pc = "loop", !.scene = scene, !.pixels = pixels, !.i = 1 ]

\* lib.rs:69-92 and 63-68: one turn of the retry loop for pixel s.i, given
\* what find_simplex_mut answered. A found simplex ends the loop: the
\* triplets of the row are pushed (with, for the record, the simplex and the
\* tolerance they were found at) and the tolerance is set again for the next
\* pixel.
ImageWeights_attempt(s, tri, result) ==
  IF result.panic THEN [ s EXCEPT !.pc = "panic" ]
  ELSE IF result.found
  THEN [ s EXCEPT !.rows = Append(@, [ cols |-> tri.simplices[result.idx], vals |-> result.bcoords, simplex |-> result.idx, eps |-> s.eps ]),
                  !.bcoords = result.bcoords,
                  !.start_hint = result.start_hint,
                  !.pc = IF s.i = Len(s.pixels) THEN "done" ELSE "loop",
                  !.i = IF s.i = Len(s.pixels) THEN @ ELSE @ + 1,
                  !.eps = IF s.i = Len(s.pixels) THEN @ ELSE 0 ]
  ELSE [ s EXCEPT !.bcoords = result.bcoords,
                  !.start_hint = result.start_hint,
                  !.eps = @ + 1 ]

\* The call of find_simplex_mut made in the searcher state s for its pixel
\* s.i, for the record: what it was given, where its descent ended, the
\* simplices its directed refinement looked at, and what it answered.
Search(s, tri, bruteforce, walked, result) ==
  [ made |-> TRUE, bruteforce |-> bruteforce, point |-> s.pixels[s.i], eps |-> s.eps, bcoords |-> s.bcoords,
    start_hint |-> s.start_hint, walked |-> walked, found |-> result.found, idx |-> result.idx,
    visits |-> IF bruteforce \/ result.panic THEN 0 ELSE directed_visits(tri, s.eps, s.pixels[s.i], walked, max_cycles(tri)) ]

\* A searcher with the bruteforce flag set (delaunay.rs:341-344) and one
\* call of find_simplex_mut on it.
find_simplex_bruteforce(s, tri, result) ==
  [ s EXCEPT !.pc = "searched", !.bcoords = result.bcoords, !.start_hint = result.start_hint,
             !.search = Search(s, tri, TRUE, NON_SIMPLEX_IDX, result) ]

\* Where the descent of find_simplex_mut can end for the searcher state s.
Walks(s) ==
  IF start_simplex_idx(s.start_hint) > Len(Triangulations[s.scene].tri.simplices)
  THEN { NON_SIMPLEX_IDX }
  ELSE Reachable(Triangulations[s.scene].tri, { start_simplex_idx(s.start_hint) })

\* ------------------------------------------------------------ the closest
\* point of a triangle, image-palette-recoloring/src/triangle_distance.rs,
\* over exact fractions in lowest terms.

Abs(x) == IF x < 0 THEN 0 - x ELSE x

RECURSIVE GCD(_, _)
GCD(a, b) == IF b = 0 THEN a ELSE GCD(b, a % b)

\* n / d with both divided by g and the denominator made positive.
Lowest(n, d, g) == IF d < 0 THEN [ n |-> (0 - n) \div g, d |-> (0 - d) \div g ] ELSE [ n |-> n \div g, d |-> d \div g ]

\* The fraction n / d in lowest terms, d # 0.
Q(n, d) == Lowest(n, d, GCD(Abs(n), Abs(d)))

QAdd(a, b) == Q(a.n * b.d + b.n * a.d, a.d * b.d)

QSub(a, b) == Q(a.n * b.d - b.n * a.d, a.d * b.d)

QMul(a, b) == Q(a.n * b.n, a.d * b.d)

QDiv(a, b) == Q(a.n * b.d, a.d * b.n)

QLe(a, b) == a.n * b.d <= b.n * a.d

QLt(a, b) == a.n * b.d < b.n * a.d

\* An integer vector as a vector of fractions.
QVec(v) == [ i \in DOMAIN v |-> Q(v[i], 1) ]

QDot(a, b) == QAdd(QAdd(QMul(a[1], b[1]), QMul(a[2], b[2])), QMul(a[3], b[3]))

QSubVec(a, b) == [ i \in DOMAIN a |-> QSub(a[i], b[i]) ]

get_min_edge02(a11, b1) ==
  << Q(0, 1),
     IF b1 >= 0 THEN Q(0, 1)
     ELSE IF a11 + b1 <= 0 THEN Q(1, 1)
     ELSE Q(0 - b1, a11) >>

\* The second component get_min_edge12 computes.
min_edge12_snd(h0, h1) ==
  IF h0 >= 0 THEN Q(0, 1)
  ELSE IF h1 <= 0 THEN Q(1, 1)
  ELSE Q(h0, h0 - h1)

get_min_edge12(a01, a11, b1, f10, f01) ==
  << QSub(Q(1, 1), min_edge12_snd(a01 + b1 - f10, a11 + b1 - f01)),
     min_edge12_snd(a01 + b1 - f10, a11 + b1 - f01) >>

get_min_interior(p0, h0, p1, h1) ==
  << QAdd(QMul(QSub(Q(1, 1), QDiv(h0, QSub(h0, h1))), p0[1]), QMul(QDiv(h0, QSub(h0, h1)), p1[1])),
     QAdd(QMul(QSub(Q(1, 1), QDiv(h0, QSub(h0, h1))), p0[2]), QMul(QDiv(h0, QSub(h0, h1)), p1[2])) >>

\* The end of the cases (2), (4) and (5) of triangle_closest_point, once p0,
\* p1 and h0 are known: on_h0 is what a non-negative h0 answers.
closest_between(a01, a11, b1, f10, f01, p0, p1, h0, h1, on_h0) ==
  IF QLe(Q(0, 1), h0) THEN on_h0
  ELSE IF QLe(h1, Q(0, 1)) THEN get_min_edge12(a01, a11, b1, f10, f01)
  ELSE get_min_interior(p0, h0, p1, h1)

\* h1 of the cases (2), (4) and (5): scale * (a01 * p1[0] + a11 * p1[1] + b1).
closest_h1(a01, a11, b1, p1, scale) ==
  QMul(scale, QAdd(QAdd(QMul(Q(a01, 1), p1[1]), QMul(Q(a11, 1), p1[2])), Q(b1, 1)))

\* The point p1 = (tmp, 1 - tmp) of the cases (2), (4) and (5).
closest_p1(f10, f01) == << Q(f01, f01 - f10), QSub(Q(1, 1), Q(f01, f01 - f10)) >>

\* The cases (2) and (5): p0 = (0, f00 / (f00 - f01)) and dt1 = p1[1] - p0[1].
closest_case25(a01, a11, b1, f00, f10, f01) ==
  closest_between(a01, a11, b1, f10, f01,
    << Q(0, 1), Q(f00, f00 - f01) >>,
    closest_p1(f10, f01),
    QMul(QSub(closest_p1(f10, f01)[2], Q(f00, f00 - f01)),
         QAdd(QMul(Q(a11, 1), Q(f00, f00 - f01)), Q(b1, 1))),
    closest_h1(a01, a11, b1, closest_p1(f10, f01), QSub(closest_p1(f10, f01)[2], Q(f00, f00 - f01))),
    get_min_edge02(a11, b1))

\* The case (4): p0 = (f00 / (f00 - f10), 0).
closest_case4(a01, a11, b1, f00, f10, f01) ==
  closest_between(a01, a11, b1, f10, f01,
    << Q(f00, f00 - f10), Q(0, 1) >>,
    closest_p1(f10, f01),
    QMul(closest_p1(f10, f01)[2], QAdd(QMul(Q(a01, 1), Q(f00, f00 - f10)), Q(b1, 1))),
    closest_h1(a01, a11, b1, closest_p1(f10, f01), closest_p1(f10, f01)[2]),
    << Q(f00, f00 - f10), Q(0, 1) >>)

\* The case (6): p0 = (f00 / (f00 - f10), 0) and p1 = (0, f00 / (f00 - f01)).
closest_case6(a01, a11, b1, f00, f10, f01) ==
  IF QLe(Q(0, 1), QMul(Q(f00, f00 - f01), QAdd(QMul(Q(a01, 1), Q(f00, f00 - f10)), Q(b1, 1))))
  THEN << Q(f00, f00 - f10), Q(0, 1) >>
  ELSE IF QLe(QMul(Q(f00, f00 - f01), QAdd(QMul(Q(a11, 1), Q(f00, f00 - f01)), Q(b1, 1))), Q(0, 1))
  THEN get_min_edge02(a11, b1)
  ELSE get_min_interior(
         << Q(f00, f00 - f10), Q(0, 1) >>,
         QMul(Q(f00, f00 - f01), QAdd(QMul(Q(a01, 1), Q(f00, f00 - f10)), Q(b1, 1))),
         << Q(0, 1), Q(f00, f00 - f01) >>,
         QMul(Q(f00, f00 - f01), QAdd(QMul(Q(a11, 1), Q(f00, f00 - f01)), Q(b1, 1))))

\* The parameters (p[0], p[1]) triangle_closest_point settles on, from the
\* products a00, a01, a11, b0, b1 of triangle_distance.rs:18-23.
closest_parameters(a00, a01, a11, b0, b1) ==
  IF b0 >= 0
  THEN IF b0 + a01 >= 0 THEN get_min_edge02(a11, b1)
       ELSE closest_case25(a01, a11, b1, b0, b0 + a00, b0 + a01)
  ELSE IF b0 + a01 <= 0
  THEN IF b0 + a00 <= 0 THEN get_min_edge12(a01, a11, b1, b0 + a00, b0 + a01)
       ELSE closest_case4(a01, a11, b1, b0, b0 + a00, b0 + a01)
  ELSE IF b0 + a00 <= 0
  THEN closest_case25(a01, a11, b1, b0, b0 + a00, b0 + a01)
  ELSE closest_case6(a01, a11, b1, b0, b0 + a00, b0 + a01)

\* v0 + p[0] * edge0 + p[1] * edge1
closest_combination(v0, edge0, edge1, p) ==
  [ i \in 1..3 |-> QAdd(Q(v0[i], 1), QAdd(QMul(p[1], Q(edge0[i], 1)), QMul(p[2], Q(edge1[i], 1)))) ]

triangle_closest_point(point, v0, v1, v2) ==
  closest_combination(v0, Sub(v1, v0), Sub(v2, v0),
    closest_parameters(Dot(Sub(v1, v0), Sub(v1, v0)), Dot(Sub(v1, v0), Sub(v2, v0)), Dot(Sub(v2, v0), Sub(v2, v0)),
                       Dot(Sub(v0, point), Sub(v1, v0)), Dot(Sub(v0, point), Sub(v2, v0))))

triangle_distance_sqr(point, v0, v1, v2) ==
  QDot(QSubVec(QVec(point), triangle_closest_point(point, v0, v1, v2)),
       QSubVec(QVec(point), triangle_closest_point(point, v0, v1, v2)))

\* ------------------------------------------------------------ the star
\* triangulation of the palette, palette.rs:309-432, row by row.

\* TOL = 1e-6 is 1 / 1000000.
TOL_inverse == 1000000

\* p >= -TOL
QGeNegTol(p) == p.n >= 0 \/ 0 - p.n <= p.d \div TOL_inverse

\* p <= 1.0 + TOL
QLeOnePlusTol(p) == p.n <= p.d \/ p.n - p.d <= p.d \div TOL_inverse

QCross(a, b) ==
  << QSub(QMul(a[2], b[3]), QMul(a[3], b[2])),
     QSub(QMul(a[3], b[1]), QMul(a[1], b[3])),
     QSub(QMul(a[1], b[2]), QMul(a[2], b[1])) >>

\* The determinant of the matrix with the columns (a, 1), (b, 1), (c, 1),
\* (d, 1), up to a sign that is the same for all arguments.
QOrient(a, b, c, d) == QDot(QSubVec(d, a), QCross(QSubVec(b, a), QSubVec(c, a)))

\* Iterator::min_by over the norms of the vertices from vertex i on, with
\* best the one kept so far: a later vertex takes its place only when its
\* norm is smaller. The norms are compared by their squares.
RECURSIVE min_by_norm(_, _, _)
min_by_norm(vertices, i, best) ==
  IF i > Len(vertices) THEN best
  ELSE IF Dot(vertices[i], vertices[i]) < Dot(vertices[best], vertices[best]) THEN min_by_norm(vertices, i + 1, i)
  ELSE min_by_norm(vertices, i + 1, best)

\* The same with a later vertex taking the place of one of equal norm.
RECURSIVE min_by_norm_last(_, _, _)
min_by_norm_last(vertices, i, best) ==
  IF i > Len(vertices) THEN best
  ELSE IF Dot(vertices[i], vertices[i]) <= Dot(vertices[best], vertices[best]) THEN min_by_norm_last(vertices, i + 1, i)
  ELSE min_by_norm_last(vertices, i + 1, best)

star_index_last_min(palette_ch) == min_by_norm_last(palette_ch.vertices, 2, 1)

\* palette.rs:328-332: the vertex min_by ends with.
star_index(palette_ch) == min_by_norm(palette_ch.vertices, 2, 1)

\* The subsequence of the indices 1..n that satisfy the set keep.
RECURSIVE Kept(_, _)
Kept(n, keep) ==
  IF n = 0 THEN << >>
  ELSE IF n \in keep THEN Append(Kept(n - 1, keep), n)
  ELSE Kept(n - 1, keep)

\* A simplex for every facet of the hull, those of the star included.
simplex_indices_every_facet(palette_ch) ==
  [ s \in 1..Len(palette_ch.facets) |-> << star_index(palette_ch) >> \o palette_ch.facets[s] ]

\* simplex_indices: the star and a facet it is not a vertex of, for each
\* such facet in the order of the hull.
simplex_indices(palette_ch) ==
  [ s \in 1..Len(Kept(Len(palette_ch.facets), { f \in 1..Len(palette_ch.facets) : star_index(palette_ch) \notin Range(palette_ch.facets[f]) })) |->
      << star_index(palette_ch) >> \o palette_ch.facets[Kept(Len(palette_ch.facets), { f \in 1..Len(palette_ch.facets) : star_index(palette_ch) \notin Range(palette_ch.facets[f]) })[s]] ]

\* The four corners of a simplex of the star triangulation.
Corners(palette_ch, indices) == [ k \in 1..4 |-> QVec(palette_ch.vertices[indices[k]]) ]

\* The matrix of a solver cannot be inverted: try_inverse().unwrap() panics.
Singular(c) == QOrient(c[1], c[2], c[3], c[4]).n = 0

\* solver.mul_to(vec, bcoords): the inverse of the matrix with the columns
\* (c[k], 1) applied to (p, 1).
mul_to(c, p) ==
  << QDiv(QOrient(p, c[2], c[3], c[4]), QOrient(c[1], c[2], c[3], c[4])),
     QDiv(QOrient(c[1], p, c[3], c[4]), QOrient(c[1], c[2], c[3], c[4])),
     QDiv(QOrient(c[1], c[2], p, c[4]), QOrient(c[1], c[2], c[3], c[4])),
     QDiv(QOrient(c[1], c[2], c[3], p), QOrient(c[1], c[2], c[3], c[4])) >>

\* The simplices whose coordinates of the pixel are all within
\* [-TOL, 1 + TOL].
Matching(palette_ch, indices, pixel) ==
  { s \in 1..Len(indices) :
      \A k \in 1..4 : /\ QGeNegTol(mul_to(Corners(palette_ch, indices[s]), QVec(pixel))[k])
                      /\ QLeOnePlusTol(mul_to(Corners(palette_ch, indices[s]), QVec(pixel))[k]) }

\* The squared distance of the pixel to facet f.
facet_dist(palette_ch, pixel, f) ==
  triangle_distance_sqr(pixel, palette_ch.vertices[palette_ch.facets[f][1]],
                        palette_ch.vertices[palette_ch.facets[f][2]],
                        palette_ch.vertices[palette_ch.facets[f][3]])

\* The facet closest to the pixel, the first of them when several are.
closest_facet(palette_ch, pixel) ==
  CHOOSE f \in 1..Len(palette_ch.facets) :
    /\ \A g \in 1..Len(palette_ch.facets) : QLe(facet_dist(palette_ch, pixel, f), facet_dist(palette_ch, pixel, g))
    /\ \A g \in 1..(f - 1) : QLt(facet_dist(palette_ch, pixel, f), facet_dist(palette_ch, pixel, g))

projected_point(palette_ch, pixel, f) ==
  triangle_closest_point(pixel, palette_ch.vertices[palette_ch.facets[f][1]],
                         palette_ch.vertices[palette_ch.facets[f][2]],
                         palette_ch.vertices[palette_ch.facets[f][3]])

\* The simplices that have all three vertices of facet f.
Holding(palette_ch, indices, f) ==
  { s \in 1..Len(indices) : Range(palette_ch.facets[f]) \subseteq Range(indices[s]) }

\* The row of the matrix: zero but for the four coordinates, written at the
\* palette positions of the simplex's vertices.
matrix_row(palette_size, vertex_map, matched_indices, bcoords) ==
  [ c \in 1..palette_size |->
      IF \E k \in 1..4 : vertex_map[matched_indices[k]] = c
      THEN bcoords[CHOOSE k \in 1..4 : vertex_map[matched_indices[k]] = c /\ \A l \in (k + 1)..4 : vertex_map[matched_indices[l]] # c]
      ELSE Q(0, 1) ]

\* One turn of the loop of palette.rs:378-429 for a pixel, given the map
\* and the simplices: the row of the matrix, or a panic.
star_row(palette_ch, vertex_map, indices, pixel) ==
  IF Matching(palette_ch, indices, pixel) # {}
  THEN [ panic |-> FALSE, fallback |-> FALSE,
         row |-> matrix_row(Len(palette_ch.vertices), vertex_map, indices[Least(Matching(palette_ch, indices, pixel))],
                            mul_to(Corners(palette_ch, indices[Least(Matching(palette_ch, indices, pixel))]), QVec(pixel))) ]
  ELSE IF Holding(palette_ch, indices, closest_facet(palette_ch, pixel)) = {}
  THEN [ panic |-> TRUE, fallback |-> TRUE, row |-> << >> ]
  ELSE [ panic |-> FALSE, fallback |-> TRUE,
         row |-> matrix_row(Len(palette_ch.vertices), vertex_map,
                            indices[Least(Holding(palette_ch, indices, closest_facet(palette_ch, pixel)))],
                            mul_to(Corners(palette_ch, indices[Least(Holding(palette_ch, indices, closest_facet(palette_ch, pixel)))]),
                                   projected_point(palette_ch, pixel, closest_facet(palette_ch, pixel)))) ]

\* The row of a colour in the matrix of palette.rs:375-431, or a panic of
\* one of the unwraps: of the inversion of a solver (palette.rs:362) or of
\* the search of the simplex of the closest facet (palette.rs:418).
star_triangulation_row(palette, palette_ch, pixel) ==
  IF \E s \in 1..Len(simplex_indices(palette_ch)) : Singular(Corners(palette_ch, simplex_indices(palette_ch)[s]))
  THEN [ panic |-> TRUE, fallback |-> FALSE, row |-> << >> ]
  ELSE star_row(palette_ch, compute_star_triangulation_coordinates(palette, palette_ch, 0).palette_ch_vertex_map,
                simplex_indices(palette_ch), pixel)

\* No star triangulation yet.
NoStar == [ called |-> FALSE, star_index |-> 0, simplex_indices |-> << >> ]

\* ------------------------------------------------------------ the edges
\* of a hull and the edge to collapse, palette.rs:167-306. The LP solver is
\* an outside library: what it answers for an edge (no solution, or a point
\* that adds some volume) is an input.

\* faces_for_vertex[v]: the facets that have the vertex v, in the order of
\* the hull.
faces_for_vertex(ch, v) == Kept(Len(ch.facets), { f \in 1..Len(ch.facets) : v \in Range(ch.facets[f]) })

\* The keys a facet enters into the map of the edges: its three pairs of
\* vertices, the lower index first.
facet_edges(facet) ==
  { << Min(facet[1], facet[2]), Max(facet[1], facet[2]) >>,
    << Min(facet[2], facet[3]), Max(facet[2], facet[3]) >>,
    << Min(facet[3], facet[1]), Max(facet[3], facet[1]) >> }

edge_keys(ch) == UNION { facet_edges(ch.facets[f]) : f \in 1..Len(ch.facets) }

\* sort_by_key on facet indices.
sort_by_key(s) ==
  [ i \in 1..Len(s) |->
      CHOOSE v \in Range(s) : /\ Cardinality({ j \in DOMAIN s : s[j] < v }) < i
                              /\ i <= Cardinality({ j \in DOMAIN s : s[j] <= v }) ]

\* dedup_by_key: of the first n elements, those that differ from the one
\* before them.
RECURSIVE dedup_by_key(_, _)
dedup_by_key(s, n) ==
  IF n = 0 THEN << >>
  ELSE IF n > 1 /\ s[n] = s[n - 1] THEN dedup_by_key(s, n - 1)
  ELSE Append(dedup_by_key(s, n - 1), s[n])

\* The faces of an edge with the facets of both ends kept as they come.
edge_faces_extended_only(ch, edge) ==
  sort_by_key(faces_for_vertex(ch, edge[1]) \o faces_for_vertex(ch, edge[2]))

\* The faces stored for an edge: those of its start, then those of its end,
\* sorted and deduplicated by facet index.
edge_faces(ch, edge) ==
  dedup_by_key(sort_by_key(faces_for_vertex(ch, edge[1]) \o faces_for_vertex(ch, edge[2])),
               Len(faces_for_vertex(ch, edge[1])) + Len(faces_for_vertex(ch, edge[2])))

\* The order of (verts[0].index(), verts[1].index()).
LexLess(a, b) == a[1] < b[1] \/ (a[1] = b[1] /\ a[2] < b[2])

\* The i-th of the keys in that order.
EdgeAt(keys, i) == CHOOSE e \in keys : Cardinality({ x \in keys : LexLess(x, e) }) = i - 1

\* EdgeData::new
EdgeData_new(ch) ==
  [ i \in 1..Cardinality(edge_keys(ch)) |->
      [ verts |-> EdgeAt(edge_keys(ch), i), faces |-> edge_faces(ch, EdgeAt(edge_keys(ch), i)) ] ]

\* Which LPs the solver fails on.
LpFailures == { "none", "all", "first", "even", "but last" }

LpFails(kind, i, n) ==
  CASE kind = "none" -> FALSE
    [] kind = "all" -> TRUE
    [] kind = "first" -> i = 1
    [] kind = "even" -> i % 2 = 0
    [] kind = "but last" -> i < n

\* How the added volumes run along the edges: all the same, alternating, or
\* in cycles of three that end on the smallest.
LpVolumes == { "equal", "alternating", "cycle" }

LpVolume(kind, i, n) ==
  CASE kind = "equal" -> 1
    [] kind = "alternating" -> i % 2
    [] kind = "cycle" -> (n - i) % 3

\* What model.solve() and the volume sum answer for n edges.
LpOutcomes(n) ==
  { [ i \in 1..n |-> [ ok |-> ~LpFails(f, i, n), vol |-> LpVolume(k, i, n) ] ] : f \in LpFailures, k \in LpVolumes }

\* edge_candidates: the edges whose LP was solved, in the order of the
\* edges.
edge_candidates(lp) == Kept(Len(lp), { i \in 1..Len(lp) : lp[i].ok })

NoEdge == [ panic |-> FALSE, called |-> FALSE, edge_vertices |-> << 0, 0 >>, vol |-> 0 ]

\* locate_edge_to_collapse keeping the last of the candidates of smallest
\* volume.
locate_edge_to_collapse_last_min(edges, lp) ==
  IF edge_candidates(lp) = << >> THEN [ NoEdge EXCEPT !.panic = TRUE, !.called = TRUE ]
  ELSE [ panic |-> FALSE, called |-> TRUE,
         edge_vertices |-> edges[CHOOSE i \in Range(edge_candidates(lp)) : \A j \in Range(edge_candidates(lp)) : lp[i].vol <= lp[j].vol /\ (j > i => lp[i].vol < lp[j].vol)].verts,
         vol |-> lp[CHOOSE i \in Range(edge_candidates(lp)) : \A j \in Range(edge_candidates(lp)) : lp[i].vol <= lp[j].vol].vol ]

\* locate_edge_to_collapse: min_by keeps the first of the candidates of
\* smallest volume; the best of no candidate is unwrapped.
locate_edge_to_collapse(edges, lp) ==
  IF edge_candidates(lp) = << >> THEN [ NoEdge EXCEPT !.panic = TRUE, !.called = TRUE ]
  ELSE [ panic |-> FALSE, called |-> TRUE,
         edge_vertices |-> edges[CHOOSE i \in Range(edge_candidates(lp)) : \A j \in Range(edge_candidates(lp)) : lp[i].vol <= lp[j].vol /\ (j < i => lp[i].vol < lp[j].vol)].verts,
         vol |-> lp[CHOOSE i \in Range(edge_candidates(lp)) : \A j \in Range(edge_candidates(lp)) : lp[i].vol <= lp[j].vol].vol ]

\* ------------------------------------------------------------ the matrix
\* of a decomposed image: the weights times the palette matrix,
\* lib.rs:177-187.

\* The palettes the searcher's images are decomposed over: the corners of a
\* tetrahedron, and these with the opposite corner of the cube.
DecomposePalettes ==
  { << <<0, 0, 0>>, <<4, 0, 0>>, <<0, 4, 0>>, <<0, 0, 4>> >>,
    << <<0, 0, 0>>, <<4, 0, 0>>, <<0, 4, 0>>, <<0, 0, 4>>, <<4, 4, 4>> >> }

\* One row of `&img.weights * palette_matrix`: the four weights of a pixel
\* times the rows of the palette matrix of their hull vertices.
weights_mul_row(row, palette_matrix) ==
  [ c \in 1..Len(palette_matrix[1].row) |->
      QAdd(QAdd(QMul(row.vals[1], palette_matrix[row.cols[1]].row[c]),
                QMul(row.vals[2], palette_matrix[row.cols[2]].row[c])),
           QAdd(QMul(row.vals[3], palette_matrix[row.cols[3]].row[c]),
                QMul(row.vals[4], palette_matrix[row.cols[4]].row[c]))) ]

\* The end of DecomposedImage::new for a palette whose hull was built and
\* has all its colours: the palette matrix of the hull vertices of the image
\* and the product.
DecomposedImage_matrix(s, palette, palette_matrix) ==
  IF palette_matrix.panic THEN [ s EXCEPT !.pc = "panic" ]
  ELSE [ s EXCEPT !.pc = "decomposed", !.palette = palette, !.palette_matrix = palette_matrix.rows,
                  !.matrix = [ r \in 1..Len(s.rows) |-> weights_mul_row(s.rows[r], palette_matrix.rows) ] ]

\* ----------------------------------------------------------------- state

VARIABLES
  ch,    \* the hull ConvexHull::from_arrays last returned
  iw,    \* the ImageWeights the caller holds
  di,    \* the DecomposedImage the caller holds
  last,  \* the last call of the API: its name, argument and result
  cp,    \* the activation of compute_palette
  ss     \* the pixel loop of ImageWeights::new and its simplex searcher

vars == << ch, iw, di, last, cp, ss >>

Palettes == UNION { [ 1..n -> PaletteColors ] : n \in 0..MaxPaletteLen }

\* Reconstruction palettes: one of every length up to one more than the
\* longest decomposition palette.
ReconstructionPalettes ==
  { [ i \in 1..n |-> <<4, 4, 4>> ] : n \in 0..(MaxPaletteLen + 1) }

Channels == 0..(MaxPaletteLen + 1)

\* The library choices the callers below go through: the facet order is
\* of no consequence to them.
VertexOrders == { l \in LibChoices : l.perm = 1 }

NoCall == [ op |-> "none", arg |-> None, res |-> [ kind |-> "none" ] ]

Init ==
  /\ ch = None
  /\ iw = None
  /\ di = None
  /\ last = NoCall
  /\ cp = cpIdle
  /\ ss = ssIdle

Fresh ==
  /\ ~ch.some /\ ~iw.some /\ ~di.some
  /\ last = NoCall
  /\ cp.pc = "idle"
  /\ ss.pc = "idle"

\* The API is in use and no call has panicked.
Running == ~ch.some /\ cp.pc = "idle" /\ ss.pc = "idle" /\ last.res.kind # "panic"

\* ConvexHull::from_arrays on its own.
FromArrays ==
  /\ Fresh
  /\ \E S \in SUBSET Colors, lib \in LibChoices :
       ch' = [ some |-> TRUE, points |-> S, lib |-> lib,
               hull |-> ConvexHull_from_iter(SortByKey(S), lib),
               edge_data |-> << >>, lp |-> << >>, collapse |-> NoEdge, star |-> NoStar ]
  /\ UNCHANGED << iw, di, last, cp, ss >>

\* locate_edge_to_collapse on a hull that was built.
LocateEdgeToCollapse ==
  /\ ch.some /\ ch.hull.ok /\ ~ch.collapse.called /\ ~ch.star.called
  /\ \E lp \in LpOutcomes(Cardinality(edge_keys(ch.hull))) :
       ch' = [ ch EXCEPT !.edge_data = EdgeData_new(ch.hull), !.lp = lp,
                         !.collapse = locate_edge_to_collapse(EdgeData_new(ch.hull), lp) ]
  /\ UNCHANGED << iw, di, last, cp, ss >>

\* palette.rs:326-369: the star and the simplices of the star
\* triangulation of a hull that was built.
StarTriangulation ==
  /\ ch.some /\ ch.hull.ok /\ ~ch.collapse.called /\ ~ch.star.called
  /\ ch' = [ ch EXCEPT !.star = [ called |-> TRUE, star_index |-> star_index(ch.hull),
                                  simplex_indices |-> simplex_indices(ch.hull) ] ]
  /\ UNCHANGED << iw, di, last, cp, ss >>

CreateImageWeights ==
  /\ Running /\ ~iw.some
  /\ \E img \in Images : \E lib \in RgbxyOutcomes(img) :
       IF lib.ok
       THEN /\ iw' = ImageWeights_new(img, lib)
            /\ last' = [ op |-> "ImageWeights::new", arg |-> img,
                         res |-> [ kind |-> "Ok" ] ]
       ELSE /\ iw' = iw
            /\ last' = [ op |-> "ImageWeights::new", arg |-> img,
                         res |-> [ kind |-> "panic" ] ]
  /\ UNCHANGED << ch, di, cp, ss >>

FreeImageWeights ==
  /\ Running /\ iw.some
  /\ iw' = None
  /\ last' = [ op |-> "free_image_weights", arg |-> None,
               res |-> [ kind |-> "Ok" ] ]
  /\ UNCHANGED << ch, di, cp, ss >>

ImageWeightsWidth ==
  /\ Running /\ iw.some
  /\ last' = [ op |-> "ImageWeights::width", arg |-> None,
               res |-> [ kind |-> "Ok", value |-> iw.width ] ]
  /\ UNCHANGED << ch, iw, di, cp, ss >>

ImageWeightsHeight ==
  /\ Running /\ iw.some
  /\ last' = [ op |-> "ImageWeights::height", arg |-> None,
               res |-> [ kind |-> "Ok", value |-> iw.height ] ]
  /\ UNCHANGED << ch, iw, di, cp, ss >>

\* A decomposition is asked for of weights just computed.
CreateDecomposedImage ==
  /\ Running /\ iw.some /\ ~di.some
  /\ last.op = "ImageWeights::new"
  /\ \E palette \in Palettes, lib \in VertexOrders :
       /\ last' = [ op |-> "DecomposedImage::new", arg |-> palette,
                    res |-> DecomposedImage_new(iw, palette, lib) ]
       /\ di' = last'.res.value
  /\ UNCHANGED << ch, iw, cp, ss >>

FreeDecomposedImage ==
  /\ Running /\ di.some
  /\ di' = None
  /\ last' = [ op |-> "free_decomposed_image", arg |-> None,
               res |-> [ kind |-> "Ok" ] ]
  /\ UNCHANGED << ch, iw, cp, ss >>

NumChannels ==
  /\ Running /\ di.some
  /\ last' = [ op |-> "DecomposedImage::num_channels", arg |-> None,
               res |-> [ kind |-> "Ok", value |-> num_channels(di) ] ]
  /\ UNCHANGED << ch, iw, di, cp, ss >>

Width ==
  /\ Running /\ di.some
  /\ last' = [ op |-> "DecomposedImage::width", arg |-> None,
               res |-> [ kind |-> "Ok", value |-> di.width ] ]
  /\ UNCHANGED << ch, iw, di, cp, ss >>

Height ==
  /\ Running /\ di.some
  /\ last' = [ op |-> "DecomposedImage::height", arg |-> None,
               res |-> [ kind |-> "Ok", value |-> di.height ] ]
  /\ UNCHANGED << ch, iw, di, cp, ss >>

GetChannelGrayscale ==
  /\ Running /\ di.some
  /\ \E n \in Channels :
       last' = [ op |-> "DecomposedImage::get_channel_grayscale", arg |-> n,
                 res |-> get_channel_grayscale(di, n) ]
  /\ UNCHANGED << ch, iw, di, cp, ss >>

\* reconstruct taking `&mut self` and keeping the pixels it produced in
\* place of the matrix.
Reconstruct_in_place ==
  /\ Running /\ di.some
  /\ \E palette \in ReconstructionPalettes :
       /\ last' = [ op |-> "DecomposedImage::reconstruct", arg |-> palette,
                    res |-> reconstruct(di, palette) ]
       /\ di' = IF last'.res.kind = "Some" THEN [ di EXCEPT !.matrix.ncols = 3 ] ELSE di
  /\ UNCHANGED << ch, iw, cp, ss >>

Reconstruct ==
  /\ Running /\ di.some
  /\ \E palette \in ReconstructionPalettes :
       last' = [ op |-> "DecomposedImage::reconstruct", arg |-> palette,
                 res |-> reconstruct(di, palette) ]
  /\ UNCHANGED << ch, iw, di, cp, ss >>

ComputePaletteBegin ==
  /\ Fresh
  /\ \E pixels \in (SUBSET Colors) \ { {} }, n \in 0..MaxSize, m \in 0..MaxSize,
        b \in ErrorBounds, e \in Errors, lib \in VertexOrders :
       cp' = compute_palette_begin(pixels, n, m, b, e, lib)
  /\ UNCHANGED << ch, iw, di, last, ss >>

ComputePaletteLoop ==
  /\ cp.pc = "while"
  /\ cp.vcount > cp.min_palette_size
  /\ \E located \in BOOLEAN, new_hull \in CollapsedHulls(cp.vcount) :
       cp' = compute_palette_body(cp, located, new_hull)
  /\ UNCHANGED << ch, iw, di, last, ss >>

ComputePaletteReturn ==
  /\ \/ cp.pc = "while" /\ ~(cp.vcount > cp.min_palette_size)
     \/ cp.pc = "break"
  /\ cp' = compute_palette_end(cp)
  /\ UNCHANGED << ch, iw, di, last, ss >>

\* lib.rs:48-68
SimplexSearcher ==
  /\ Fresh
  /\ \E scene \in 1..Len(Triangulations) :
       \E n \in 1..MaxPixels :
         \E pixels \in [ 1..n -> Triangulations[scene].pixels ] :
           ss' = ImageWeights_searcher(scene, pixels)
  /\ UNCHANGED << ch, iw, di, last, cp >>

\* The hull vertices of the images of the searcher's scenes.
SceneVertices == UNION { Range(Triangulations[k].tri.vertices) : k \in 1..Len(Triangulations) }

\* The rows of the palette matrices of these vertices, computed once.
StarRowTable ==
  Tabulate([ k \in DecomposePalettes \X VertexOrders \X SceneVertices |->
               star_triangulation_row(k[1], ConvexHull_from_iter(k[1], k[2]), k[3]) ])

\* compute_star_triangulation_coordinates with the values of the matrix:
\* the rows for the colours img_rgb_values, or a panic.
star_triangulation_matrix(palette, lib, img_rgb_values) ==
  [ panic |-> \E r \in 1..Len(img_rgb_values) : StarRowTable[<< palette, lib, img_rgb_values[r] >>].panic,
    rows |-> [ r \in 1..Len(img_rgb_values) |-> StarRowTable[<< palette, lib, img_rgb_values[r] >>] ] ]

\* DecomposedImage::new on the weights the searcher's session produced.
Decompose ==
  /\ ss.pc = "done"
  /\ \E palette \in DecomposePalettes :
       \E lib \in VertexOrders :
         ss' = DecomposedImage_matrix(ss, palette, star_triangulation_matrix(palette, lib, Triangulations[ss.scene].tri.vertices))
  /\ UNCHANGED << ch, iw, di, last, cp >>

\* lib.rs:69-92: one turn of the retry loop.
FindSimplex ==
  /\ ss.pc = "loop"
  /\ ss.eps <= MaxDoublings
  /\ \E walked \in Walks(ss) :
       ss' = [ ImageWeights_attempt(ss, Triangulations[ss.scene].tri,
                 find_simplex_mut(Triangulations[ss.scene].tri, ss.eps, FALSE, ss.pixels[ss.i],
                                  ss.bcoords, ss.start_hint, walked))
               EXCEPT !.search = Search(ss, Triangulations[ss.scene].tri, FALSE, walked,
                                   find_simplex_mut(Triangulations[ss.scene].tri, ss.eps, FALSE, ss.pixels[ss.i],
                                                    ss.bcoords, ss.start_hint, walked)) ]
  /\ UNCHANGED << ch, iw, di, last, cp >>

\* delaunay.rs:51-117: the facade of what the library lists for one of the
\* triangulations, the upper-delaunay simplices last or first.
DelaunayFromQhullRaw ==
  /\ Fresh
  /\ \E scene \in 1..Len(Triangulations) :
       \E raw \in { RawDelaunay_simplices(Triangulations[scene].tri), Reverse(RawDelaunay_simplices(Triangulations[scene].tri)) } :
         ss' = [ ssIdle EXCEPT !.pc = "facade", !.scene = scene,
                               !.facade = [ raw |-> raw, delaunay |-> Delaunay_from_qhull_raw(raw) ] ]
  /\ UNCHANGED << ch, iw, di, last, cp >>

\* delaunay.rs:244-251: plane_distance of a simplex for a lifted point.
PlaneDistance ==
  /\ Fresh
  /\ \E normal \in PlaneNormals :
       \E offset \in PlaneOffsets :
         \E point \in PlanePoints :
           ss' = [ ssIdle EXCEPT !.pc = "distance",
                                 !.plane = [ normal |-> normal, offset |-> offset, point |-> point,
                                             distance |-> plane_distance(normal, offset, point) ] ]
  /\ UNCHANGED << ch, iw, di, last, cp >>

\* delaunay.rs:300-327, 341-344, 390-399: a new searcher, set_bruteforce(true)
\* and one call of find_simplex_mut.
FindSimplexBruteforce ==
  /\ Fresh
  /\ \E scene \in 1..Len(Triangulations) :
       \E point \in Triangulations[scene].pixels :
         ss' = find_simplex_bruteforce(ImageWeights_searcher(scene, << point >>), Triangulations[scene].tri,
                 find_simplex_mut(Triangulations[scene].tri, 0, TRUE, point, ZeroCoords, NON_SIMPLEX_IDX, NON_SIMPLEX_IDX))
  /\ UNCHANGED << ch, iw, di, last, cp >>

Next ==
  \/ FromArrays
  \/ CreateImageWeights
  \/ FreeImageWeights
  \/ ImageWeightsWidth
  \/ ImageWeightsHeight
  \/ CreateDecomposedImage
  \/ FreeDecomposedImage
  \/ NumChannels
  \/ Width
  \/ Height
  \/ GetChannelGrayscale
  \/ Reconstruct
  \/ ComputePaletteBegin
  \/ ComputePaletteLoop
  \/ ComputePaletteReturn
  \/ SimplexSearcher
  \/ FindSimplex
  \/ FindSimplexBruteforce
  \/ PlaneDistance
  \/ DelaunayFromQhullRaw
  \/ Decompose
  \/ LocateEdgeToCollapse
  \/ StarTriangulation

Spec == Init /\ [][Next]_vars

\* --------------------------------------------------------------- claims

HasDuplicate(palette) ==
  \E i, j \in 1..Len(palette) : i # j /\ palette[i] = palette[j]

NewReturned == last.op = "DecomposedImage::new"

\* C1: DecomposedImage::new answers a palette of four or more colours in
\* which a colour occurs twice, and whose hull the library builds, with the
\* redundant-palette error.
C1_DuplicateIsRedundant ==
  (/\ NewReturned
   /\ Len(last.arg) >= 4
   /\ HasDuplicate(last.arg)
   /\ FullDimensional(Range(last.arg)))
  => (last.res.kind = "Err" /\ last.res.err = "RedundantPalette")

\* C2: when DecomposedImage::new has the hull of the palette, it returns
\* the redundant-palette error exactly when some palette colour is not an
\* extreme point of the palette.
C2_RedundantIffNotVertex ==
  (NewReturned /\ last.res.hull_built /\ last.res.err # "HullConstructionFailed")
  => ((last.res.kind = "Err" /\ last.res.err = "RedundantPalette")
        <=> \E i \in 1..Len(last.arg) :
              last.arg[i] \notin ExtremeTable[Range(last.arg)])

\* A palette with a colour inside the hull of the others is refused.
C2_Witness ==
  /\ NewReturned /\ last.res.hull_built
  /\ last.res.err = "RedundantPalette"
  /\ <<1, 1, 1>> \in Range(last.arg)

\* C3: DecomposedImage::new answers a palette of fewer than four colours
\* with the palette-too-small error, and has not asked for the palette's
\* hull by then.
C3_TooSmallBeforeHull ==
  (NewReturned /\ Len(last.arg) < 4)
  => (/\ last.res.kind = "Err"
      /\ last.res.err = "PaletteTooSmall"
      /\ ~last.res.hull_built)

\* Three colours that span no volume were refused for their number.
C3_Witness ==
  /\ NewReturned /\ Len(last.arg) = 3
  /\ ~FullDimensional(Range(last.arg))
  /\ last.res.err = "PaletteTooSmall"

\* C4: a DecomposedImage that DecomposedImage::new returned has as many
\* channels as the palette has colours.
C4_ChannelsEqualPaletteLen ==
  (NewReturned /\ last.res.kind = "Ok")
  => num_channels(di) = Len(last.arg)

\* C5: reconstruct returns None exactly when the palette's length differs
\* from the number of channels, and an image of width x height pixels
\* otherwise.
C5_Reconstruct ==
  (last.op = "DecomposedImage::reconstruct")
  => /\ last.res.kind = "None" <=> Len(last.arg) # num_channels(di)
     /\ last.res.kind # "None"
          => /\ last.res.kind = "Some"
             /\ last.res.value.width = di.width
             /\ last.res.value.height = di.height
             /\ last.res.value.pixels = di.width * di.height

C5_Witness ==
  /\ last.op = "DecomposedImage::reconstruct"
  /\ last.res.kind = "None"
  /\ Len(last.arg) = num_channels(di) + 1

\* C6: get_channel_grayscale returns None exactly when the channel is not
\* below the number of channels, and an image of width x height pixels
\* otherwise.
C6_GetChannelGrayscale ==
  (last.op = "DecomposedImage::get_channel_grayscale")
  => /\ last.res.kind = "None" <=> last.arg >= num_channels(di)
     /\ last.res.kind # "None"
          => /\ last.res.kind = "Some"
             /\ last.res.value.width = di.width
             /\ last.res.value.height = di.height
             /\ last.res.value.pixels = di.width * di.height

C6_Witness ==
  /\ last.op = "DecomposedImage::get_channel_grayscale"
  /\ last.res.kind = "None"
  /\ last.arg = num_channels(di)

\* C7: with error_bound = infinity the gate never stops the loop, and
\* compute_palette returns at least 4 colours: at most max(n, 4) of them
\* when the hull of the image has that many vertices, and as many as that
\* hull has vertices when it has fewer.
C7_InfiniteBoundSize ==
  (cp.pc = "done" /\ cp.error_bound = Infinity)
  => /\ cp.stop # "gate"
     /\ cp.palette >= 4
     /\ cp.image_vcount >= Max(cp.n, 4) => cp.palette <= Max(cp.n, 4)
     /\ cp.image_vcount < Max(cp.n, 4) => cp.palette = cp.image_vcount

\* The loop collapsed the hull down to the size asked for.
C7_Witness ==
  /\ cp.pc = "done" /\ cp.error_bound = Infinity
  /\ cp.collapses >= 2
  /\ cp.palette = Max(cp.n, 4)

\* C7 as stated: with error_bound = infinity compute_palette returns
\* exactly max(n, 4) colours.
C7_ExactlyMaxN4 ==
  (cp.pc = "done" /\ cp.error_bound = Infinity)
  => cp.palette = Max(cp.n, 4)

\* C8: when compute_palette has stopped at the error gate, the pixel error
\* of the hull whose vertices it returns does not exceed error_bound.
C8_GateReturnsHullWithinBound ==
  (cp.pc = "done" /\ cp.stop = "gate")
  => cp.error <= cp.error_bound

\* C9: compute_palette(I, 4, 4, infinity) on an image of a single colour
\* does not crash and returns 4 colours.
C9_SolidImage ==
  (/\ cp.pc \in { "panic", "done" }
   /\ cp.solid
   /\ cp.n = 4 /\ cp.max_palette_size = 4 /\ cp.error_bound = Infinity)
  => (cp.pc = "done" /\ cp.palette = 4)

\* C10: in every hull ConvexHull::from_arrays returns, each facet's
\* vertices (v0, v1, v2) and normal n satisfy ((v1 - v0) x (v2 - v0)) . n >= 0.
C10_FacetOrientation ==
  (ch.some /\ ch.hull.ok)
  => \A f \in 1..Len(ch.hull.facets) :
       LET v0 == ch.hull.vertices[ch.hull.facets[f][1]]
           v1 == ch.hull.vertices[ch.hull.facets[f][2]]
           v2 == ch.hull.vertices[ch.hull.facets[f][3]]
           normal == ch.hull.offsets_and_normals[f][1]
       IN  Dot(Cross(Sub(v1, v0), Sub(v2, v0)), normal) >= 0

\* A hull of six vertices for which the library listed some facet's
\* vertices clockwise.
C10_Witness ==
  /\ ch.some /\ ch.hull.ok
  /\ Len(ch.hull.vertices) = 6
  /\ LET raw == RawHull_from_iter(ch.points, ch.lib)
         reported(f) == [ j \in 1..3 |->
                           IndexOfId(raw.vertices, raw.facets[f].vertices[j]) ]
     IN  \E f \in 1..Len(raw.facets) : ch.hull.facets[f] # reported(f)

\* The sum of the weights of a row, as a numerator over the product of the
\* denominators.
RowSumDen(vals) == vals[1].d * vals[2].d * vals[3].d * vals[4].d

RowSumNum(vals) ==
  vals[1].n * vals[2].d * vals[3].d * vals[4].d + vals[2].n * vals[1].d * vals[3].d * vals[4].d
    + vals[3].n * vals[1].d * vals[2].d * vals[4].d + vals[4].n * vals[1].d * vals[2].d * vals[3].d


\* C11: every row ImageWeights::new stores sums to 1 within 1e-6 and none of
\* its weights is below -1e-6, whatever the tolerance its simplex was found
\* at.
C11_RowsSumToOne ==
  \A r \in 1..Len(ss.rows) :
    /\ Abs(RowSumNum(ss.rows[r].vals) - RowSumDen(ss.rows[r].vals)) <= RowSumDen(ss.rows[r].vals) \div 1000000
    /\ \A k \in 1..(NDim + 1) :
         ss.rows[r].vals[k].n >= 0 \/ 0 - ss.rows[r].vals[k].n <= ss.rows[r].vals[k].d \div 1000000

\* C14: the retry loop of ImageWeights::new is left only with a found
\* simplex. The tolerance is set back for every pixel and doubled after a
\* failed attempt, and no attempt ends the call without a simplex.
C14_RetryLoopFindsSimplex ==
  /\ ss.pc \in { "done", "decomposed", "panic" } => Len(ss.rows) = Len(ss.pixels)
  /\ ss.pc = "loop" => Len(ss.rows) = ss.i - 1

\* C15: the coordinates find_simplex_mut leaves with a simplex it returns
\* are the barycentric coordinates of the point in that simplex: they are
\* what solving for the simplex gives, they sum to 1 and each is within
\* [-eps, 1 + eps].
C15_CoordsOfReturnedSimplex ==
  \A r \in 1..Len(ss.rows) :
    /\ \A k \in 1..(NDim + 1) :
         ss.rows[r].vals[k].n * solve(BarycentricTransformation_new(Triangulations[ss.scene].tri, ss.rows[r].simplex), ss.pixels[r])[k].d
           = solve(BarycentricTransformation_new(Triangulations[ss.scene].tri, ss.rows[r].simplex), ss.pixels[r])[k].n * ss.rows[r].vals[k].d
    /\ RowSumNum(ss.rows[r].vals) = RowSumDen(ss.rows[r].vals)
    /\ AllInside(ss.rows[r].vals, ss.rows[r].eps)

\* The sum of the fractions of a row.
RECURSIVE QSum(_, _)
QSum(row, n) == IF n = 0 THEN Q(0, 1) ELSE QAdd(QSum(row, n - 1), row[n])

\* A row of a mixing matrix within the tolerance 1e-6: the entries in
\* [0, 1] and the sum 1.
ValidRow(row) ==
  /\ \A c \in 1..Len(row) : QGeNegTol(row[c]) /\ QLeOnePlusTol(row[c])
  /\ QGeNegTol(QSub(QSum(row, Len(row)), Q(1, 1)))
  /\ QGeNegTol(QSub(Q(1, 1), QSum(row, Len(row))))

\* C12: every row of the matrix of a decomposed image sums to 1 and has
\* its entries in [0, 1], within 1e-6, also when hull vertices of the image
\* lie outside the hull of the palette and were projected onto it.
C12_MatrixRowsValid ==
  ss.pc = "decomposed" => \A r \in 1..Len(ss.matrix) : ValidRow(ss.matrix[r])

\* The calls that borrow the weights or the decomposed image without the
\* right to write it.
SharedCalls ==
  { "DecomposedImage::new", "DecomposedImage::reconstruct", "DecomposedImage::get_channel_grayscale",
    "DecomposedImage::num_channels", "DecomposedImage::width", "DecomposedImage::height" }

FacetsAtEnds(hull, verts) ==
  { f \in 1..Len(hull.facets) : verts[1] \in Range(hull.facets[f]) \/ verts[2] \in Range(hull.facets[f]) }

\* C19: EdgeData::new lists every unordered pair of hull vertices that share
\* a facet exactly once, the lower index first and the list sorted by the
\* pair, and stores for each pair, without duplicates, exactly the facets
\* that have at least one of its two vertices.
C19_EdgeData ==
  (ch.some /\ ch.collapse.called) =>
    /\ \A u, v \in 1..Len(ch.hull.vertices) :
         (u < v /\ \E f \in 1..Len(ch.hull.facets) : { u, v } \subseteq Range(ch.hull.facets[f]))
           => Cardinality({ i \in 1..Len(ch.edge_data) : ch.edge_data[i].verts = << u, v >> }) = 1
    /\ \A i \in 1..Len(ch.edge_data) :
         /\ ch.edge_data[i].verts[1] < ch.edge_data[i].verts[2]
         /\ \E f \in 1..Len(ch.hull.facets) : Range(ch.edge_data[i].verts) \subseteq Range(ch.hull.facets[f])
         /\ i > 1 => LexLess(ch.edge_data[i - 1].verts, ch.edge_data[i].verts)
         /\ Range(ch.edge_data[i].faces) = FacetsAtEnds(ch.hull, ch.edge_data[i].verts)
         /\ Len(ch.edge_data[i].faces) = Cardinality(FacetsAtEnds(ch.hull, ch.edge_data[i].verts))

C19_Witness ==
  /\ ch.some /\ ch.collapse.called
  /\ Len(ch.hull.vertices) = 5
  /\ Len(ch.edge_data) = 9
  /\ \E i \in 1..Len(ch.edge_data) : Len(ch.edge_data[i].faces) = 5

\* C20: locate_edge_to_collapse returns an edge whose LP was solved, of
\* the smallest added volume among the edges whose LP was solved, and the
\* first in the order of (lower index, higher index) among those of that
\* volume.
C20_SmallestVolumeFirst ==
  (ch.some /\ ch.collapse.called /\ ~ch.collapse.panic) =>
    \E i \in 1..Len(ch.edge_data) :
      /\ ch.lp[i].ok
      /\ ch.collapse.edge_vertices = ch.edge_data[i].verts
      /\ ch.collapse.vol = ch.lp[i].vol
      /\ \A j \in 1..Len(ch.edge_data) :
           ch.lp[j].ok => /\ ch.lp[i].vol <= ch.lp[j].vol
                          /\ (ch.lp[j].vol = ch.lp[i].vol /\ j # i) => LexLess(ch.edge_data[i].verts, ch.edge_data[j].verts)

C20_Witness ==
  /\ ch.some /\ ch.collapse.called /\ ~ch.collapse.panic
  /\ ~ch.lp[1].ok
  /\ \E i, j \in 1..Len(ch.lp) :
       /\ i < j /\ ch.lp[i].ok /\ ch.lp[j].ok /\ ch.lp[i].vol = ch.lp[j].vol
       /\ ch.collapse.edge_vertices = ch.edge_data[i].verts
  /\ \E k \in 1..Len(ch.lp) : ch.lp[k].ok /\ ch.lp[k].vol > ch.collapse.vol

\* C16: compute_palette does not panic because the LP solver failed: an
\* edge whose LP fails is only left out of the candidates, also when that
\* leaves no candidate at all.
C16_LpFailureNotSurfaced == ~(cp.pc = "panic" /\ cp.stop = "no candidate")

\* The passes through the body of the loop so far: the collapses committed
\* and the pass that left the loop without one.
BodyRuns(s) == s.collapses + (IF s.stop \in { "gate", "no candidate", "no hull" } THEN 1 ELSE 0)

\* C17: compute_palette's loop is bounded: every committed collapse leaves
\* a hull of fewer vertices (and never fewer than four), so the body of the
\* loop is entered at most (vertex count of the image's hull - 4) times,
\* the pass that ends in the error gate or in a panic included.
C17_LoopBounded ==
  cp.image_vcount > 0 =>
    /\ cp.vcount + cp.collapses <= cp.image_vcount
    /\ cp.vcount >= 4
    /\ BodyRuns(cp) <= cp.image_vcount - 4
    /\ cp.stop # "noshrink"

C17_Witness ==
  /\ cp.pc = "done"
  /\ cp.image_vcount > 5
  /\ cp.collapses = cp.image_vcount - 4
  /\ cp.stop = "size"

\* C21: the directed refinement looks at no more than ceil(simplex_count / 4)
\* + 1 simplices in a call of find_simplex_mut, whatever the simplex count,
\* before it answers or falls back to the scan.
C21_VisitsBounded ==
  ss.search.made =>
    ss.search.visits <= (Len(Triangulations[ss.scene].tri.simplices) + 3) \div 4 + 1

\* A call on the fan of four simplices that used up its cycles, two, on the
\* way from the first simplex to the fourth, and had the scan find the
\* fourth.
C21_Witness ==
  /\ ss.search.made
  /\ Len(Triangulations[ss.scene].tri.simplices) = 4
  /\ ss.search.walked = 1
  /\ ss.search.visits = 2
  /\ ss.search.found
  /\ ss.search.idx = 4

\* The first position of a coordinate below -eps in the simplex the
\* refinement of the last call began at, or 0: there is none, the simplex
\* is degenerate, or the refinement did not run.
FirstNegative ==
  IF ~ss.search.made \/ ss.search.bruteforce \/ ss.search.walked = NON_SIMPLEX_IDX THEN 0
  ELSE IF is_degenerate(BarycentricTransformation_new(Triangulations[ss.scene].tri, ss.search.walked)) THEN 0
  ELSE IF Negative(solve(BarycentricTransformation_new(Triangulations[ss.scene].tri, ss.search.walked), ss.search.point), ss.search.eps) = {} THEN 0
  ELSE Least(Negative(solve(BarycentricTransformation_new(Triangulations[ss.scene].tri, ss.search.walked), ss.search.point), ss.search.eps))

\* What the refinement answers when it goes on from simplex nb after the
\* first cycle of the last call, which wrote the coordinates up to
\* position k.
GoesOnFrom(nb, k) ==
  directed_cycles(Triangulations[ss.scene].tri, ss.search.eps, ss.search.point, nb,
                  iter_bcoords(BarycentricTransformation_new(Triangulations[ss.scene].tri, ss.search.walked),
                               ss.search.point, ss.search.bcoords, k),
                  ss.search.start_hint, max_cycles(Triangulations[ss.scene].tri) - 1)

\* C22: when the first coordinate below -eps of the simplex the refinement
\* is at stands at position k, the refinement goes on from the neighbour
\* stored at position k; when that neighbour is the marker of the outer
\* boundary, the call answers that nothing was found, with the simplex it
\* was at as the hint, and the scan does not run.
C22_FirstNegativeCoordinate ==
  FirstNegative # 0 =>
    IF Triangulations[ss.scene].tri.neighbors[ss.search.walked][FirstNegative] = NON_SIMPLEX_IDX
    THEN /\ ~ss.search.found
         /\ ss.start_hint = ss.search.walked
         /\ ss.bcoords = iter_bcoords(BarycentricTransformation_new(Triangulations[ss.scene].tri, ss.search.walked),
                                      ss.search.point, ss.search.bcoords, FirstNegative)
         /\ ss.pc = "loop"
    ELSE /\ ss.search.found = GoesOnFrom(Triangulations[ss.scene].tri.neighbors[ss.search.walked][FirstNegative], FirstNegative).found
         /\ ss.search.idx = GoesOnFrom(Triangulations[ss.scene].tri.neighbors[ss.search.walked][FirstNegative], FirstNegative).idx
         /\ ss.start_hint = GoesOnFrom(Triangulations[ss.scene].tri.neighbors[ss.search.walked][FirstNegative], FirstNegative).start_hint
         /\ ss.bcoords = GoesOnFrom(Triangulations[ss.scene].tri.neighbors[ss.search.walked][FirstNegative], FirstNegative).bcoords

\* A call that ended at the outer boundary with nothing found, a new hint
\* and the buffer written up to the negative coordinate only: the scan
\* would have left the coordinates of the last simplex in it.
C22_Witness ==
  /\ FirstNegative # 0
  /\ Triangulations[ss.scene].tri.neighbors[ss.search.walked][FirstNegative] = NON_SIMPLEX_IDX
  /\ ~ss.search.found
  /\ ss.search.start_hint # ss.search.walked
  /\ ss.start_hint = ss.search.walked
  /\ ss.bcoords # find_best_simplex_bruteforce(Triangulations[ss.scene].tri, ss.search.eps, ss.search.point, ss.search.bcoords, ss.search.start_hint).bcoords

\* C23: after a call of find_simplex_mut that returned a simplex, the hint
\* of the searcher is the index of that simplex, whether the directed
\* refinement found it, the scan it fell back to, or the scan of a searcher
\* with the bruteforce flag on.
C23_HintIsReturnedSimplex ==
  (ss.search.made /\ ss.search.found) => ss.start_hint = ss.search.idx

\* C25: the simplex a call of find_simplex_mut starts from, the hint or
\* the simplex taken when there is none, is a simplex of the triangulation,
\* and so is the simplex its descent ends at: every index the call
\* dereferences is below the simplex count, also for one simplex.
C25_IndicesInRange ==
  (ss.search.made /\ ~ss.search.bruteforce) =>
    /\ start_simplex_idx(ss.search.start_hint) \in 1..Len(Triangulations[ss.scene].tri.simplices)
    /\ ss.search.walked \in 1..Len(Triangulations[ss.scene].tri.simplices)

\* C24: plane_distance returns the signed distance of the lifted point to
\* the hyperplane of the simplex, the offset plus the sum of the products
\* of the coordinates of the normal and the point.
C24_PlaneDistance ==
  ss.pc = "distance" =>
    ss.plane.distance = ss.plane.offset + ss.plane.normal[1] * ss.plane.point[1] + ss.plane.normal[2] * ss.plane.point[2]
                          + ss.plane.normal[3] * ss.plane.point[3] + ss.plane.normal[4] * ss.plane.point[4]

\* C26: in a facade built from what the library lists, the stored
\* simplices are the listed ones that are not upper-delaunay, in order and
\* with their points; a neighbour entry is the marker exactly when the
\* listed neighbour is upper-delaunay and otherwise the index of the stored
\* simplex that neighbour became; every vertex index of a simplex is below
\* the vertex count; and every stored vertex is in a stored simplex.
C26_FacadeInvariants ==
  ss.pc = "facade" =>
    /\ Len(ss.facade.delaunay.simplices) = Len(lower_delaunay(ss.facade.raw, 1))
    /\ Len(ss.facade.delaunay.neighbors) = Len(ss.facade.delaunay.simplices)
    /\ \A j \in 1..Len(ss.facade.delaunay.simplices) : \A k \in 1..(NDim + 1) :
         /\ ss.facade.delaunay.simplices[j][k] \in 1..Len(ss.facade.delaunay.vertices)
         /\ ss.facade.delaunay.vertices[ss.facade.delaunay.simplices[j][k]] = lower_delaunay(ss.facade.raw, 1)[j].vertices[k].point
         /\ IF ss.facade.raw[IndexOfId(ss.facade.raw, lower_delaunay(ss.facade.raw, 1)[j].neighbors[k])].upper
            THEN ss.facade.delaunay.neighbors[j][k] = NON_SIMPLEX_IDX
            ELSE /\ ss.facade.delaunay.neighbors[j][k] \in 1..Len(ss.facade.delaunay.simplices)
                 /\ lower_delaunay(ss.facade.raw, 1)[ss.facade.delaunay.neighbors[j][k]].id = lower_delaunay(ss.facade.raw, 1)[j].neighbors[k]
    /\ \A v \in 1..Len(ss.facade.delaunay.vertices) :
         \E j \in 1..Len(ss.facade.delaunay.simplices) : \E k \in 1..(NDim + 1) :
           ss.facade.delaunay.simplices[j][k] = v

\* A facade of a list that begins with an upper-delaunay simplex, with a
\* neighbour entry that is the marker and one that is not, and a listed
\* vertex that is in upper-delaunay simplices only.
C26_Witness ==
  /\ ss.pc = "facade"
  /\ ss.facade.raw[1].upper
  /\ \E j \in 1..Len(ss.facade.delaunay.neighbors) : \E k, l \in 1..(NDim + 1) :
       /\ ss.facade.delaunay.neighbors[j][k] = NON_SIMPLEX_IDX
       /\ ss.facade.delaunay.neighbors[j][l] # NON_SIMPLEX_IDX
  /\ \E i \in 1..Len(ss.facade.raw) : \E k \in 1..(NDim + 1) :
       \A v \in 1..Len(ss.facade.delaunay.vertices) :
         ss.facade.delaunay.vertices[v] # ss.facade.raw[i].vertices[k].point

\* C27: an ImageWeights has as many weight columns as ch_rgb_vertices has
\* entries, also when the triangulation keeps fewer vertices than the hull
\* reported, so that the product of the weights with the matrix of the
\* vertices in DecomposedImage::new never fails on its dimensions.
C27_ColumnsAreVertices ==
  /\ iw.some => iw.weights.ncols = iw.ch_rgb_vertices
  /\ last.op = "DecomposedImage::new" => last.res.err # "DimensionMismatch"

\* C28: every facet of a palette hull, with the star or without it, has
\* all three of its vertices in exactly one simplex of the star
\* triangulation, so that the search of the simplex of the closest facet
\* finds one: no decomposition ends in its unwrap.
C28_OneSimplexPerFacet ==
  /\ (ch.some /\ ch.star.called) =>
       \A f \in 1..Len(ch.hull.facets) :
         Cardinality(Holding(ch.hull, ch.star.simplex_indices, f)) = 1
  /\ ~(ss.pc = "panic" /\ ss.pixels # << >> /\ Len(ss.rows) = Len(ss.pixels))

\* A decomposition with a hull vertex of the image outside the hull of the
\* palette: its row was written from the simplex of the closest facet.
C28_Witness ==
  /\ ss.pc = "decomposed"
  /\ \E r \in 1..Len(ss.palette_matrix) : ss.palette_matrix[r].fallback /\ ~ss.palette_matrix[r].panic

\* C29: the star is the hull vertex of smallest norm, the one of lowest
\* index when several have it; the simplices of the star triangulation are
\* the star followed by a facet, one for every facet the star is not a
\* vertex of and none for a facet it is a vertex of.
C29_StarTriangulation ==
  (ch.some /\ ch.star.called) =>
    /\ \A j \in 1..Len(ch.hull.vertices) :
         Dot(ch.hull.vertices[ch.star.star_index], ch.hull.vertices[ch.star.star_index]) <= Dot(ch.hull.vertices[j], ch.hull.vertices[j])
    /\ \A j \in 1..(ch.star.star_index - 1) :
         Dot(ch.hull.vertices[ch.star.star_index], ch.hull.vertices[ch.star.star_index]) < Dot(ch.hull.vertices[j], ch.hull.vertices[j])
    /\ \A f \in 1..Len(ch.hull.facets) :
         Cardinality({ s \in 1..Len(ch.star.simplex_indices) : ch.star.simplex_indices[s] = << ch.star.star_index >> \o ch.hull.facets[f] })
           = IF ch.star.star_index \in Range(ch.hull.facets[f]) THEN 0 ELSE 1
    /\ \A s \in 1..Len(ch.star.simplex_indices) :
         \E f \in 1..Len(ch.hull.facets) : ch.star.simplex_indices[s] = << ch.star.star_index >> \o ch.hull.facets[f]

\* The star triangulation of a hull of five or more vertices of which a
\* later one has the norm of the star.
C29_Witness ==
  /\ ch.some /\ ch.star.called
  /\ Len(ch.hull.vertices) >= 5
  /\ \E j \in (ch.star.star_index + 1)..Len(ch.hull.vertices) :
       Dot(ch.hull.vertices[j], ch.hull.vertices[j]) = Dot(ch.hull.vertices[ch.star.star_index], ch.hull.vertices[ch.star.star_index])
  /\ \E f \in 1..Len(ch.hull.facets) : ch.star.star_index \in Range(ch.hull.facets[f])
  /\ Len(ch.star.simplex_indices) >= 2

\* C30: row i of the weights and of the decomposition, counted from 0,
\* belongs to the pixel (x, y) of the image with i = y * W + x, every pixel
\* to one row; reconstruct and get_channel_grayscale give the value of row
\* i to the pixel (i mod W, i div W), the pixel the row belongs to, and no
\* row falls outside the image.
C30_PixelPositions ==
  /\ iw.some =>
       /\ Len(iw.row_pixels) = iw.weights.nrows
       /\ \A i \in 1..Len(iw.row_pixels) :
            /\ iw.row_pixels[i][1] \in 0..(iw.width - 1)
            /\ iw.row_pixels[i][2] \in 0..(iw.height - 1)
            /\ i - 1 = iw.row_pixels[i][2] * iw.width + iw.row_pixels[i][1]
       /\ \A x \in 0..(iw.width - 1) : \A y \in 0..(iw.height - 1) :
            Cardinality({ i \in 1..Len(iw.row_pixels) : iw.row_pixels[i] = << x, y >> }) = 1
  /\ di.some =>
       /\ Len(di.row_pixels) = di.matrix.nrows
       /\ \A i \in 1..Len(di.row_pixels) :
            /\ di.row_pixels[i][1] \in 0..(di.width - 1)
            /\ di.row_pixels[i][2] \in 0..(di.height - 1)
            /\ i - 1 = di.row_pixels[i][2] * di.width + di.row_pixels[i][1]
  /\ last.op \in { "DecomposedImage::reconstruct", "DecomposedImage::get_channel_grayscale" } => last.res.kind # "panic"
  /\ (last.op \in { "DecomposedImage::reconstruct", "DecomposedImage::get_channel_grayscale" } /\ last.res.kind = "Some") =>
       /\ Len(last.res.value.positions) = Len(di.row_pixels)
       /\ \A i \in 1..Len(di.row_pixels) :
            /\ last.res.value.positions[i] = di.row_pixels[i]
            /\ last.res.value.positions[i] = << (i - 1) % di.width, (i - 1) \div di.width >>

\* An image reconstructed from the decomposition of an image that is
\* higher than wide.
C30_Witness ==
  /\ last.op = "DecomposedImage::reconstruct"
  /\ last.res.kind = "Some"
  /\ di.width = 2
  /\ di.height = 3
  /\ last.res.value.positions[4] = << 1, 1 >>

====
